---- MODULE Spec2Model ----
(***************************************************************************)
(* Smart movie search: useDebounce, the query parser, the discover         *)
(* parameter mapper and the useSmartMovieSearch hook (endpoint routing,    *)
(* pagination and result accumulation) as a state machine.                 *)
(* Text is a TLA+ string; Ch(t, i) is its i-th character (1-based).  The   *)
(* characters a string can be written with are those of U+0000..U+00FF and *)
(* the characters of U+0100..U+FFFF whose code ends in 80..FF.             *)
(***************************************************************************)
EXTENDS Integers, Sequences, FiniteSets, TLC

(***************************************************************************)
(* Characters and the JavaScript string primitives the parser relies on.   *)
(***************************************************************************)
Ch(t, i) == SubSeq(t, i, i)

\* the value of Step at s, with s evaluated first (a statement of the source
\* acts on the value its predecessors left)
Then(s, Step(_)) == CHOOSE r \in {Step(x) : x \in {s}} : TRUE

UpperAlpha == "ABCDEFGHIJKLMNOPQRSTUVWXYZ"
LowerAlpha == "abcdefghijklmnopqrstuvwxyz"
DigitChars == "0123456789"

Digit == {Ch(DigitChars, i) : i \in 1..10}
Letter == {Ch(LowerAlpha, i) : i \in 1..26} \cup {Ch(UpperAlpha, i) : i \in 1..26}
\* \w of a JavaScript regular expression
WordChar == Letter \cup Digit \cup {"_"}
\* \s of a JavaScript regular expression, also what String.prototype.trim
\* strips: tab, line feed, vertical tab (U+000B), form feed, carriage
\* return, space, no-break space (U+00A0), ogham space mark (U+1680) and
\* the byte order mark (U+FEFF).  The other white space (U+2000..U+200A,
\* U+2028, U+2029, U+202F, U+205F, U+3000) cannot be written in a string
WhiteSpace == {" ", "\t", "\n", "\r", "\f", "", " ", " ", "﻿"}
\* the character class [>>=]
Comparator == {">", "="}

DigitVal(c) == (CHOOSE i \in 1..10 : Ch(DigitChars, i) = c) - 1

\* index just past the longest run of characters of S that starts at i
SpanOf(t, i, S) ==
  LET stops == {j \in i..(Len(t) + 1) : j = Len(t) + 1 \/ Ch(t, j) \notin S}
  IN  CHOOSE j \in stops : \A k \in stops : j <= k

\* index of the last character of the longest run of S that ends at i
SpanBack(t, i, S) ==
  LET stops == {j \in 0..i : j = 0 \/ Ch(t, j) \notin S}
  IN  CHOOSE j \in stops : \A k \in stops : j >= k

\* String.prototype.includes
includes(t, w) ==
  \E i \in 1..(Len(t) + 1) : i + Len(w) - 1 <= Len(t) /\ SubSeq(t, i, i + Len(w) - 1) = w

\* the characters toLowerCase changes, one by one, and what it makes of
\* them: those whose lower case is one character that a string can be
\* written with, but for capital sigma
UpperChars == UpperAlpha \o "ÀÁÂÃÄÅÆÇÈÉÊËÌÍÎÏÐÑÒÓÔÕÖØÙÚÛÜÝÞ" \o
  "ƂƄƇƋƎƑƘƠƢƤƦƧƩƬƮƯƱƲƳƵƷƸƼǄǅǇǈǊǋǍǏǑǓǕǗǙǛǞǠǢǤǦǨǪǬǮǱǲǴǶǷǸǺǼǾΆΈΉΊΌΎΏΑΒΓΔΕΖΗΘΙΚΛΜΝΞΟΠΡΤΥΦΧΨΩΪΫϏϘϚϜϞϠϢϤϦϨϪϬϮϴϷϹϺҀҊҌҎҐҒҔҖҘҚҜҞҠҢҤҦҨҪҬҮҰҲҴҶҸҺҼҾӀӁӃӅӇӉӋӍӐӒӔӖӘӚӜӞӠӢӤӦӨӪӬӮӰӲӴӶӸӺӼӾᎰᎱᎲᎳᎴᎵᎶᎷᎸᎹᎺᎻᎼᎽᎾᎿᏀᏁᏂᏃᏄᏅᏆᏇᏈᏉᏊᏋᏌᏍᏎᏏᏐᏑᏒᏓᏔᏕᏖᏗᏘᏙᏚᏛᏜᏝᏞᏟᏠᏡᏢᏣᏤᏥᏦᏧᏨᏩᏪᏫᏬᏭᏮᏯᏰᏱᏲᏳᏴᏵᲉᲐᲑᲒᲓᲔᲕᲖᲗᲘᲙᲚᲛᲜᲝᲞᲟᲠᲡᲢᲣᲤᲥᲦᲧᲨᲩᲪᲫᲬᲭᲮᲯᲰᲱᲲᲳᲴᲵᲶᲷᲸᲹᲺᲽᲾᲿẀẂẄẆẈẊẌẎẐẒẔẞẠẢẤẦẨẪẬẮẰẲẴẶẸẺẼẾỀỂỄỆỈỊỌỎỐỒỔỖỘỚỜỞỠỢỤỦỨỪỬỮỰỲỴỶỸỺỼỾᾈᾉᾊᾋᾌᾍᾎᾏᾘᾙᾚᾛᾜᾝᾞᾟᾨᾩᾪᾫᾬᾭᾮᾯᾸᾹᾼῌῘῙῨῩῬῼↃⒶⒷⒸⒹⒺⒻⒼⒽⒾⒿⓀⓁⓂⓃⓄⓅⓆⓇⓈⓉⓊⓋⓌⓍⓎⓏⲀⲂⲄⲆⲈⲊⲌⲎⲐⲒⲔⲖⲘⲚⲜⲞⲠⲢⲤⲦⲨⲪⲬⲮⲰⲲⲴⲶⲸⲺⲼⲾⳀⳂⳄⳆⳈⳊⳌⳎⳐⳒⳔⳖⳘⳚⳜⳞⳠⳢⳫⳭⳲꚀꚂꚄꚆꚈꚊꚌꚎꚐꚒꚔꚖꚘꚚꞀꞂꞄꞆꞋꞐꞒꞖꞘꞚꞜꞞꞠꞢꞤꞦꞨꞰꞱꞲꞴꞶꞸꞺꞼꞾꟀꟂꟄꟅꟆꟇꟉꟌ꟎Ꟑ꟒꟔ꟖꟘꟚꟜꟵ"
LowerChars == LowerAlpha \o "àáâãäåæçèéêëìíîïðñòóôõöøùúûüýþ" \o
  "ƃƅƈƌǝƒƙơƣƥʀƨʃƭʈưʊʋƴƶʒƹƽǆǆǉǉǌǌǎǐǒǔǖǘǚǜǟǡǣǥǧǩǫǭǯǳǳǵƕƿǹǻǽǿάέήίόύώαβγδεζηθικλμνξοπρτυφχψωϊϋϗϙϛϝϟϡϣϥϧϩϫϭϯθϸϲϻҁҋҍҏґғҕҗҙқҝҟҡңҥҧҩҫҭүұҳҵҷҹһҽҿӏӂӄӆӈӊӌӎӑӓӕӗәӛӝӟӡӣӥӧөӫӭӯӱӳӵӷӹӻӽӿꮀꮁꮂꮃꮄꮅꮆꮇꮈꮉꮊꮋꮌꮍꮎꮏꮐꮑꮒꮓꮔꮕꮖꮗꮘꮙꮚꮛꮜꮝꮞꮟꮠꮡꮢꮣꮤꮥꮦꮧꮨꮩꮪꮫꮬꮭꮮꮯꮰꮱꮲꮳꮴꮵꮶꮷꮸꮹꮺꮻꮼꮽꮾꮿᏸᏹᏺᏻᏼᏽᲊაბგდევზთიკლმნოპჟრსტუფქღყშჩცძწჭხჯჰჱჲჳჴჵჶჷჸჹჺჽჾჿẁẃẅẇẉẋẍẏẑẓẕßạảấầẩẫậắằẳẵặẹẻẽếềểễệỉịọỏốồổỗộớờởỡợụủứừửữựỳỵỷỹỻỽỿᾀᾁᾂᾃᾄᾅᾆᾇᾐᾑᾒᾓᾔᾕᾖᾗᾠᾡᾢᾣᾤᾥᾦᾧᾰᾱᾳῃῐῑῠῡῥῳↄⓐⓑⓒⓓⓔⓕⓖⓗⓘⓙⓚⓛⓜⓝⓞⓟⓠⓡⓢⓣⓤⓥⓦⓧⓨⓩⲁⲃⲅⲇⲉⲋⲍⲏⲑⲓⲕⲗⲙⲛⲝⲟⲡⲣⲥⲧⲩⲫⲭⲯⲱⲳⲵⲷⲹⲻⲽⲿⳁⳃⳅⳇⳉⳋⳍⳏⳑⳓⳕⳗⳙⳛⳝⳟⳡⳣⳬⳮⳳꚁꚃꚅꚇꚉꚋꚍꚏꚑꚓꚕꚗꚙꚛꞁꞃꞅꞇꞌꞑꞓꞗꞙꞛꞝꞟꞡꞣꞥꞧꞩʞʇʝꞵꞷꞹꞻꞽꞿꟁꟃꞔʂᶎꟈꟊꟍ꟏ꟑꟓꟕꟗꟙꟛƛꟶ"
\* the characters toLowerCase changes to a character that no string can be
\* written with
UnwrittenLowerChars ==
  "ƁƆƉƊƏƐƓƔƖƗƜƝƟϽϾϿႠႡႢႣႤႥႦႧႨႩႪႫႬႭႮႯႰႱႲႳႴႵႶႷႸႹႺႻႼႽႾႿჀჁჂჃჄჅჇჍᎠᎡᎢᎣᎤᎥᎦᎧᎨᎩᎪᎫᎬᎭᎮᎯᾺΆῈΈῊΉῚΊῪΎῸΌῺΏꞍꞪꞫꞬꞭꞮꞳꟋ"

\* the cased letters that case does not ignore, and the characters case
\* ignores (apostrophe, full stop, accents, combining marks, modifier
\* letters, format characters), among the characters of a string
CasedChars ==
  "ABCDEFGHIJKLMNOPQRSTUVWXYZabcdefghijklmnopqrstuvwxyzªµºÀÁÂÃÄÅÆÇÈÉÊËÌÍÎÏÐÑÒÓÔÕÖØÙÚÛÜÝÞßàáâãäåæçèéêëìíîïðñòóôõöøùúûüýþÿƀƁƂƃƄƅƆƇƈƉƊƋƌƍƎƏƐƑƒƓƔƕƖƗƘƙƚƛƜƝƞƟƠơƢƣƤƥƦƧƨƩƪƫƬƭƮƯưƱƲƳƴƵƶƷƸƹƺƼƽƾƿǄǅǆǇǈǉǊǋǌǍǎǏǐǑǒǓǔǕǖǗǘǙǚǛǜǝǞǟǠǡǢǣǤǥǦǧǨǩǪǫǬǭǮǯǰǱǲǳǴǵǶǷǸǹǺǻǼǽǾǿʀʁʂʃʄʅʆʇʈʉʊʋʌʍʎʏʐʑʒʓʖʗʘʙʚʛʜʝʞʟʠʡʢʣʤʥʦʧʨʩʪʫʬʭʮʯΆΈΉΊΌΎΏΐΑΒΓΔΕΖΗΘΙΚΛΜΝΞΟΠΡΣΤΥΦΧΨΩΪΫάέήίΰαβγδεζηθικλμνξοπρςστυφχψωϊϋόύώϏϐϑϒϓϔϕϖϗϘϙϚϛϜϝϞϟϠϡϢϣϤϥϦϧϨϩϪϫϬϭϮϯϰϱϲϳϴϵϷϸϹϺϻϼϽϾϿҀҁҊҋҌҍҎҏҐґҒғҔҕҖҗҘҙҚқҜҝҞҟҠҡҢңҤҥҦҧҨҩҪҫҬҭҮүҰұҲҳҴҵҶҷҸҹҺһҼҽҾҿӀӁӂӃӄӅӆӇӈӉӊӋӌӍӎӏӐӑӒӓӔӕӖӗӘәӚӛӜӝӞӟӠӡӢӣӤӥӦӧӨөӪӫӬӭӮӯӰӱӲӳӴӵӶӷӸӹӺӻӼӽӾӿրցւփքօֆևֈႠႡႢႣႤႥႦႧႨႩႪႫႬႭႮႯႰႱႲႳႴႵႶႷႸႹႺႻႼႽႾႿჀჁჂჃჄჅჇჍაბგდევზთიკლმნოპჟრსტუფქღყშჩცძწჭხჯჰჱჲჳჴჵჶჷჸჹჺჽჾჿᎠᎡᎢᎣᎤᎥᎦᎧᎨᎩᎪᎫᎬᎭᎮᎯᎰᎱᎲᎳᎴᎵᎶᎷᎸᎹᎺᎻᎼᎽᎾᎿᏀᏁᏂᏃᏄᏅᏆᏇᏈᏉᏊᏋᏌᏍᏎᏏᏐᏑᏒᏓᏔᏕᏖᏗᏘᏙᏚᏛᏜᏝᏞᏟᏠᏡᏢᏣᏤᏥᏦᏧᏨᏩᏪᏫᏬᏭᏮᏯᏰᏱᏲᏳᏴᏵᏸᏹᏺᏻᏼᏽᲀᲁᲂᲃᲄᲅᲆᲇᲈᲉᲊᲐᲑᲒᲓᲔᲕᲖᲗᲘᲙᲚᲛᲜᲝᲞᲟᲠᲡᲢᲣᲤᲥᲦᲧᲨᲩᲪᲫᲬᲭᲮᲯᲰᲱᲲᲳᲴᲵᲶᲷᲸᲹᲺᲽᲾᲿᶀᶁᶂᶃᶄᶅᶆᶇᶈᶉᶊᶋᶌᶍᶎᶏᶐᶑᶒᶓᶔᶕᶖᶗᶘᶙᶚẀẁẂẃẄẅẆẇẈẉẊẋẌẍẎẏẐẑẒẓẔẕẖẗẘẙẚẛẜẝẞẟẠạẢảẤấẦầẨẩẪẫẬậẮắẰằẲẳẴẵẶặẸẹẺẻẼẽẾếỀềỂểỄễỆệỈỉỊịỌọỎỏỐốỒồỔổỖỗỘộỚớỜờỞởỠỡỢợỤụỦủỨứỪừỬửỮữỰựỲỳỴỵỶỷỸỹỺỻỼỽỾỿᾀᾁᾂᾃᾄᾅᾆᾇᾈᾉᾊᾋᾌᾍᾎᾏᾐᾑᾒᾓᾔᾕᾖᾗᾘᾙᾚᾛᾜᾝᾞᾟᾠᾡᾢᾣᾤᾥᾦᾧᾨᾩᾪᾫᾬᾭᾮᾯᾰᾱᾲᾳᾴᾶᾷᾸᾹᾺΆᾼιῂῃῄῆῇῈΈῊΉῌῐῑῒΐῖῗῘῙῚΊῠῡῢΰῤῥῦῧῨῩῪΎῬῲῳῴῶῷῸΌῺΏῼↃↄⒶⒷⒸⒹⒺⒻⒼⒽⒾⒿⓀⓁⓂⓃⓄⓅⓆⓇⓈⓉⓊⓋⓌⓍⓎⓏⓐⓑⓒⓓⓔⓕⓖⓗⓘⓙⓚⓛⓜⓝⓞⓟⓠⓡⓢⓣⓤⓥⓦⓧⓨⓩⲀⲁⲂⲃⲄⲅⲆⲇⲈⲉⲊⲋⲌⲍⲎⲏⲐⲑⲒⲓⲔⲕⲖⲗⲘⲙⲚⲛⲜⲝⲞⲟⲠⲡⲢⲣⲤⲥⲦⲧⲨⲩⲪⲫⲬⲭⲮⲯⲰⲱⲲⲳⲴⲵⲶⲷⲸⲹⲺⲻⲼⲽⲾⲿⳀⳁⳂⳃⳄⳅⳆⳇⳈⳉⳊⳋⳌⳍⳎⳏⳐⳑⳒⳓⳔⳕⳖⳗⳘⳙⳚⳛⳜⳝⳞⳟⳠⳡⳢⳣⳤⳫⳬⳭⳮⳲⳳꚀꚁꚂꚃꚄꚅꚆꚇꚈꚉꚊꚋꚌꚍꚎꚏꚐꚑꚒꚓꚔꚕꚖꚗꚘꚙꚚꚛꞀꞁꞂꞃꞄꞅꞆꞇꞋꞌꞍꞎꞐꞑꞒꞓꞔꞕꞖꞗꞘꞙꞚꞛꞜꞝꞞꞟꞠꞡꞢꞣꞤꞥꞦꞧꞨꞩꞪꞫꞬꞭꞮꞯꞰꞱꞲꞳꞴꞵꞶꞷꞸꞹꞺꞻꞼꞽꞾꞿꟀꟁꟂꟃꟄꟅꟆꟇꟈꟉꟊꟋꟌꟍ꟎꟏Ꟑꟑ꟒ꟓ꟔ꟕꟖꟗꟘꟙꟚꟛꟜꟵꟶꟺꮀꮁꮂꮃꮄꮅꮆꮇꮈꮉꮊꮋꮌꮍꮎꮏꮐꮑꮒꮓꮔꮕꮖꮗꮘꮙꮚꮛꮜꮝꮞꮟꮠꮡꮢꮣꮤꮥꮦꮧꮨꮩꮪꮫꮬꮭꮮꮯꮰꮱꮲꮳꮴꮵꮶꮷꮸꮹꮺꮻꮼꮽꮾꮿ"
IgnorableChars ==
  "'.:^¨­¯´·¸ʰʱʲʳʴʵʶʷʸʹʺʻʼʽʾʿˀˁ˂˃˄˅ˆˇˈˉˊˋˌˍˎˏːˑ˒˓˔˕˖˗˘˙˚˛˜˝˞˟ˠˡˢˣˤ˥˦˧˨˩˪˫ˬ˭ˮ˯˰˱˲˳˴˵˶˷˸˹˺˻˼˽˾˿΄΅·҃҄҅҆҇҈҉ְֱֲֳִֵֶַָׇֹֺֻּֽֿׁׂ֑֖֛֢֣֤֥֦֧֪ׅ֚֭֮֒֓֔֕֗֘֙֜֝֞֟֠֡֨֩֫֬֯ׄ״ۖۗۘۙۚۛۜ۝ۣ۟۠ۡۢۤۥۦ۪ۭۧۨ۫۬ަާިީުޫެޭޮޯް߲߫߬߭߮߯߰߱߳ߴߵߺ߽࢈࢐࢑࢙࢚࢛ࢗ࢘࢜࢝࢞࢟ࣉ࣏࣐࣑࣒࣓࣊࣋࣌࣍࣎ࣔࣕࣖࣗࣘࣙࣚࣛࣜࣝࣞࣟ࣠࣡࣢ࣰࣱࣲࣣࣦࣩ࣭࣮࣯ࣶࣹࣺࣤࣥࣧࣨ࣪࣫࣬ࣳࣴࣵࣷࣸࣻࣼࣽࣾࣿঁ়ুূৃৄ্ৢৣ৾ઁં઼ુૂૃૄૅેૈ્ૢૣૺૻૼ૽૾૿ஂீ்ಁ಼ಿೆೌ್ೢೣඁ්ිීුූັິີຶື຺ຸູົຼໆ່້໊໋໌ໍ໎྄ཱྀྀྂྃ྆྇ྍྎྏྐྑྒྒྷྔྕྖྗྙྚྛྜྜྷྞྟྠྡྡྷྣྤྥྦྦྷྨྩྪྫྫྷྭྮྯྰྱྲླྴྵྶྷྸྐྵྺྻྼ࿆ႂႅႆႍႝჼ឴឵ិីឹឺុូួំ៉៊់៌៍៎៏័៑្៓ៗ៝ᢅᢆᢩᪧ᪵᪶᪷᪸᪹᪺᪽᪰᪱᪲᪳᪴᪻᪼᪾ᪿᫀ᫃᫄᫊᫁᫂᫅᫆᫇᫈᫉᫋ᫌᫍᫎ᫏᫐᫑᫒᫓᫔᫕᫖᫗᫘᫙᫚᫛᫜᫝᫠᫡᫢᫣᫤᫥᫦᫧᫨᫩᫪᫫ᮀᮁᮢᮣᮤᮥᮨᮩ᮫ᮬᮭ᯦ᯨᯩᯭᯯᯰᯱ᳔᳢᳣᳤᳥᳦᳧᳨᳕᳖᳗᳘᳙᳜᳝᳞᳟᳭᳐᳑᳒᳚᳛᳠᳴᳸᳹ᶛᶜᶝᶞᶟᶠᶡᶢᶣᶤᶥᶦᶧᶨᶩᶪᶫᶬᶭᶮᶯᶰᶱᶲᶳᶴᶵᶶᶷᶸᶹᶺᶻᶼᶽᶾᶿ᷐᷎᷺᷂᷊᷏᷹᷽᷿᷷᷸᷀᷁᷃᷄᷅᷆᷇᷈᷉᷋᷌᷑᷒ᷓᷔᷕᷖᷗᷘᷙᷚᷛᷜᷝᷞᷟᷠᷡᷢᷣᷤᷥᷦᷧᷨᷩᷪᷫᷬᷭᷮᷯᷰᷱᷲᷳᷴ᷵᷻᷾᷶᷼᷍᾽᾿῀῁῍῎῏῝῞῟῭΅`´῾ₐₑₒₓₔₕₖₗₘₙₚₛₜ⃒⃓⃘⃙⃚⃐⃑⃔⃕⃖⃗⃛⃜⃝⃞⃟⃠⃡⃢⃣⃤⃥⃦⃪⃫゙゚⃨⃬⃭⃮⃯⃧⃩⃰⳯⳰⳱ⷠⷡⷢⷣⷤⷥⷦⷧⷨⷩⷪⷫⷬⷭⷮⷯⷰⷱⷲⷳⷴⷵⷶⷷⷸⷹⷺⷻⷼⷽⷾⷿ゛゜ゝゞーヽヾꓸꓹꓺꓻꓼꓽꚜꚝꚞꚟ꛰꛱ꞈ꞉꞊꟱ꟲꟳꟴꟸꟹ꣄ꣅ꣠꣡꣢꣣꣤꣥꣦꣧꣨꣩꣪꣫꣬꣭꣮꣯꣰꣱ꣿꦀꦁꦂ꦳ꦶꦷꦸꦹꦼꦽꧏꧥꧦꪴꪰꪲꪳꪷꪸꪾ꪿꫁ꫝꫬꫭꫳꫴ꫶ꯥꯨ꯭﮲﮳﮴﮵﮶﮷﮸﮹﮺﮻﮼﮽﮾﮿﯀﯁﯂﻿ﾞﾟ￣￹￺￻"

\* the lower case of a character other than capital sigma; a letter of
\* a..z is its own.  The lower case of a character of UnwrittenLowerChars
\* is no character of a string: LowerChar has no value there
LowerChar(c) ==
  IF \E i \in 1..26 : Ch(LowerAlpha, i) = c THEN c
  ELSE IF \E i \in 1..Len(UpperChars) : Ch(UpperChars, i) = c
  THEN Ch(LowerChars, CHOOSE i \in 1..Len(UpperChars) : Ch(UpperChars, i) = c)
  ELSE CASE \A i \in 1..Len(UnwrittenLowerChars) : Ch(UnwrittenLowerChars, i) # c -> c

\* capital sigma at i ends a word (Final_Sigma): the character before it,
\* ignorable ones skipped, is a cased letter, and the one after it is not
FinalSigma(t, i) ==
  LET ignorable == {Ch(IgnorableChars, k) : k \in 1..Len(IgnorableChars)}
      b == SpanBack(t, i - 1, ignorable)
      a == SpanOf(t, i + 1, ignorable)
  IN  /\ b >= 1
      /\ includes(CasedChars, Ch(t, b))
      /\ ~(a <= Len(t) /\ includes(CasedChars, Ch(t, a)))

RECURSIVE LowerFrom(_, _)
LowerFrom(t, i) ==
  IF i > Len(t) THEN ""
  ELSE (IF Ch(t, i) = "Σ" THEN (IF FinalSigma(t, i) THEN "ς" ELSE "σ")
        ELSE LowerChar(Ch(t, i))) \o LowerFrom(t, i + 1)

\* String.prototype.toLowerCase
toLowerCase(t) == LowerFrom(t, 1)

\* String.prototype.trim
trim(t) ==
  LET a == SpanOf(t, 1, WhiteSpace)
      b == SpanBack(t, Len(t), WhiteSpace)
  IN  IF a > Len(t) THEN "" ELSE SubSeq(t, a, b)

\* a literal of a case-insensitive pattern matches at i: a letter of a..z
\* and its capital match each other, any other character matches itself
\* only (the pattern has no u flag)
LitAt(t, i, lit) ==
  /\ i + Len(lit) - 1 <= Len(t)
  /\ \A k \in 1..Len(lit) :
       \/ Ch(t, i + k - 1) = Ch(lit, k)
       \/ \E j \in 1..26 :
            {Ch(t, i + k - 1), Ch(lit, k)} = {Ch(LowerAlpha, j), Ch(UpperAlpha, j)}

\* a literal of a case-sensitive pattern matches at i
LitAtCS(t, i, lit) ==
  /\ i + Len(lit) - 1 <= Len(t)
  /\ SubSeq(t, i, i + Len(lit) - 1) = lit

IsWordAt(t, i) == i >= 1 /\ i <= Len(t) /\ Ch(t, i) \in WordChar

\* \b between positions i-1 and i
WordBoundary(t, i) == IsWordAt(t, i - 1) # IsWordAt(t, i)

\* the text with the characters from..(to-1) cut out
Cut(t, from, to) == SubSeq(t, 1, from - 1) \o SubSeq(t, to, Len(t))

RECURSIVE DigitsUpTo(_, _)
DigitsUpTo(t, n) ==
  IF n = 0 THEN 0 ELSE 10 * DigitsUpTo(t, n - 1) + DigitVal(Ch(t, n))

\* the number a run of decimal digits denotes
DigitsToNat(t) == DigitsUpTo(t, Len(t))

RECURSIVE NatToStr(_)
\* String(n) of a non-negative integer
NatToStr(n) ==
  IF n < 10 THEN Ch(DigitChars, n + 1)
  ELSE NatToStr(n \div 10) \o Ch(DigitChars, (n % 10) + 1)

(***************************************************************************)
(* Numbers.  parseInt and parseFloat return IEEE 754 doubles: the double   *)
(* nearest to the decimal they read, ties to the even mantissa.  A double  *)
(* is held as the decimal the language prints for it, the shortest decimal *)
(* that reads back as that double, written out positionally: whole is its  *)
(* integer part without leading zeros ("0" for none), frac its fraction    *)
(* digits without trailing zeros.  Two doubles are equal iff they are held *)
(* as the same record.                                                     *)
(***************************************************************************)
Infinity == [whole |-> "Infinity", frac |-> ""]
Zero == [whole |-> "0", frac |-> ""]

\* a string of n zeros
RECURSIVE Zeros(_)
Zeros(n) ==
  IF n <= 0 THEN ""
  ELSE IF n = 1 THEN "0"
  ELSE Then(Zeros(n \div 2), LAMBDA z : z \o z \o (IF n % 2 = 1 THEN "0" ELSE ""))

\* t without its leading zeros
StripZeros(t) == Then(t, LAMBDA s : SubSeq(s, SpanOf(s, 1, {"0"}), Len(s)))

\* t without its trailing zeros
StripZerosBack(t) == Then(t, LAMBDA s : SubSeq(s, 1, SpanBack(s, Len(s), {"0"})))

(***************************************************************************)
(* Natural numbers of any size: the limbs of the number in base Limb, the  *)
(* most significant first, none for zero.  Sums of two limbs stay below    *)
(* 2^31.                                                                   *)
(***************************************************************************)
Limb == 1000000000

\* x without leading zero limbs
DropZeros(x) ==
  Then(x, LAMBDA v :
    IF \A i \in 1..Len(v) : v[i] = 0 THEN <<>>
    ELSE SubSeq(v, CHOOSE i \in 1..Len(v) : v[i] # 0 /\ \A k \in 1..(i - 1) : v[k] = 0,
                Len(v)))

\* 2 * x: a limb carries into the next iff it is at least Limb / 2
Twice(x) ==
  Then(x, LAMBDA v :
    DropZeros(SubSeq([i \in 1..(Len(v) + 1) |->
                        (2 * (IF i = 1 THEN 0 ELSE v[i - 1])
                           + (IF i <= Len(v) /\ 2 * v[i] >= Limb THEN 1 ELSE 0)) % Limb],
                     1, Len(v) + 1)))

\* x \div 2: an odd limb hands Limb / 2 down to the next
Halve(x) ==
  Then(x, LAMBDA v :
    DropZeros(SubSeq([i \in 1..Len(v) |->
                        (v[i] + (IF i > 1 /\ v[i - 1] % 2 = 1 THEN Limb ELSE 0)) \div 2],
                     1, Len(v))))

\* x < y
Less(x, y) ==
  Then(<<x, y>>, LAMBDA p :
    IF Len(p[1]) # Len(p[2]) THEN Len(p[1]) < Len(p[2])
    ELSE \E i \in 1..Len(p[1]) :
           p[1][i] < p[2][i] /\ \A k \in 1..(i - 1) : p[1][k] = p[2][k])

\* x + y
Plus(x, y) ==
  Then(<<x, y>>, LAMBDA p :
    LET n == (IF Len(p[1]) > Len(p[2]) THEN Len(p[1]) ELSE Len(p[2])) + 1
        \* limb j of v written with n limbs
        At(v, j) == IF j > n - Len(v) THEN v[j - (n - Len(v))] ELSE 0
        Sum(j) == At(p[1], j) + At(p[2], j)
        Carry(i) == \E j \in (i + 1)..n :
                      Sum(j) >= Limb /\ \A k \in (i + 1)..(j - 1) : Sum(k) = Limb - 1
    IN  DropZeros(SubSeq([i \in 1..n |-> (Sum(i) + (IF Carry(i) THEN 1 ELSE 0)) % Limb],
                         1, n)))

\* x - y, for y <= x
Minus(x, y) ==
  Then(<<x, y>>, LAMBDA p :
    LET n == Len(p[1])
        \* limb j of y written with n limbs
        At(j) == IF j > n - Len(p[2]) THEN p[2][j - (n - Len(p[2]))] ELSE 0
        Borrow(i) == \E j \in (i + 1)..n :
                       /\ p[1][j] < At(j)
                       /\ \A k \in (i + 1)..(j - 1) : p[1][k] = At(k)
    IN  DropZeros(SubSeq([i \in 1..n |->
                            (p[1][i] - At(i)
                               - (IF Borrow(i) THEN 1 ELSE 0) + Limb) % Limb],
                         1, n)))

\* the number a run of decimal digits denotes, as limbs
Limbs(t) ==
  Then(t, LAMBDA s :
    LET n == Len(s)
        k == (n + 8) \div 9
        From(i) == n - 9 * (k - i + 1) + 1
    IN  DropZeros(SubSeq([i \in 1..k |->
                            DigitsToNat(SubSeq(s, IF From(i) < 1 THEN 1 ELSE From(i),
                                               n - 9 * (k - i)))],
                         1, k)))

RECURSIVE LimbTexts(_, _, _)
\* the digits of the limbs lo..hi of v, nine of each
LimbTexts(v, lo, hi) ==
  IF lo > hi THEN ""
  ELSE IF lo = hi THEN Then(NatToStr(v[lo]), LAMBDA s : Zeros(9 - Len(s)) \o s)
  ELSE LimbTexts(v, lo, (lo + hi) \div 2) \o LimbTexts(v, (lo + hi) \div 2 + 1, hi)

\* the decimal digits of x, none for zero
Digits(x) == Then(x, LAMBDA v : StripZeros(LimbTexts(v, 1, Len(v))))

\* x is odd
Odd(x) == Then(x, LAMBDA v : Len(v) > 0 /\ v[Len(v)] % 2 = 1)

RECURSIVE TwiceBy(_, _)
\* x * 2^k
TwiceBy(x, k) ==
  IF k <= 0 THEN x
  ELSE IF k = 1 THEN Twice(x)
  ELSE Then(TwiceBy(x, k \div 2), LAMBDA v : TwiceBy(v, k - k \div 2))

RECURSIVE HalveBy(_, _)
\* x \div 2^k
HalveBy(x, k) ==
  IF k <= 0 THEN x
  ELSE IF k = 1 THEN Halve(x)
  ELSE Then(HalveBy(x, k \div 2), LAMBDA v : HalveBy(v, k - k \div 2))

(***************************************************************************)
(* The double nearest to a / b.                                            *)
(***************************************************************************)
TwoTo53 == Limbs("9007199254740992")

\* the binary exponents of the decimals read lie well within
\* -MaxExponent..MaxExponent
MaxExponent == 1100

RECURSIVE RaisedBy(_, _, _, _)
\* the largest e of lo..hi with b * 2^e <= a, for b * 2^lo <= a
RaisedBy(a, b, lo, hi) ==
  IF lo >= hi THEN lo
  ELSE Then((lo + hi + 1) \div 2, LAMBDA mid :
         IF Less(a, TwiceBy(b, mid)) THEN RaisedBy(a, b, lo, mid - 1)
         ELSE RaisedBy(a, b, mid, hi))

RECURSIVE LoweredBy(_, _, _, _)
\* the least n of lo..hi with b <= a * 2^n, for b <= a * 2^hi
LoweredBy(a, b, lo, hi) ==
  IF lo >= hi THEN lo
  ELSE Then((lo + hi) \div 2, LAMBDA mid :
         IF Less(TwiceBy(a, mid), b) THEN LoweredBy(a, b, mid + 1, hi)
         ELSE LoweredBy(a, b, lo, mid))

\* a, b and e with a / b in [1, 2) and the value a / b * 2^e, for a, b > 0
Scaled(a, b) ==
  IF Less(a, b)
  THEN Then(LoweredBy(a, b, 1, MaxExponent), LAMBDA n :
         [a |-> TwiceBy(a, n), b |-> b, e |-> 0 - n])
  ELSE Then(RaisedBy(a, b, 0, MaxExponent), LAMBDA e :
         [a |-> a, b |-> TwiceBy(b, e), e |-> e])

RECURSIVE Bits(_, _, _)
\* the next k binary digits of s.r / b, for s.r < 2b, appended to s.m, and
\* what is left of s.r, doubled at every digit
Bits(s, b, k) ==
  IF k <= 0 THEN s
  ELSE IF k = 1
  THEN Then(s, LAMBDA v :
         IF Less(v.r, b) THEN [m |-> Twice(v.m), r |-> Twice(v.r)]
         ELSE [m |-> Plus(Twice(v.m), <<1>>), r |-> Twice(Minus(v.r, b))])
  ELSE Then(Bits(s, b, k \div 2), LAMBDA v : Bits(v, b, k - k \div 2))

\* the number of mantissa digits of a double with binary exponent e:
\* 53, fewer for a subnormal
Precision(e) == IF e >= -1022 THEN 53 ELSE e + 1075

(***************************************************************************)
(* The shortest decimal that reads back as the double m * 2^q, and of      *)
(* several the one nearest to it (Number::toString).  The decimals that    *)
(* read back as the double lie between the midpoints to its neighbours,    *)
(* the midpoints included iff m is even.  All is counted in units of       *)
(* 2^(q-2) = 5^g / 10^g, g = 2 - q, or of 1 when q >= 2.                    *)
(***************************************************************************)
\* x * 2^(q-2) as a multiple of 10^-g
InUnits(x, q) ==
  IF q >= 2 THEN TwiceBy(x, q - 2)
  ELSE HalveBy(Limbs(Digits(x) \o Zeros(2 - q)), 2 - q)

\* the digits of x with the last j replaced by zeros
Floored(s, j) == SubSeq(s, 1, Len(s) - j) \o Zeros(j)

\* the last j digits of s are more than half of 10^j (1), half (0), less (-1)
AboveHalf(s, j) ==
  IF j = 0 THEN -1
  ELSE LET first == DigitVal(Ch(s, Len(s) - j + 1))
           rest  == SubSeq(s, Len(s) - j + 2, Len(s))
       IN  IF first > 5 THEN 1
           ELSE IF first < 5 THEN -1
           ELSE IF rest = Zeros(j - 1) THEN 0 ELSE 1

\* the digits, a multiple of 10^-g, written out positionally
Positional(s, g) ==
  Then(Zeros(g + 1 - Len(s)) \o s, LAMBDA t :
    [whole |-> Then(StripZeros(SubSeq(t, 1, Len(t) - g)),
                    LAMBDA w : IF w = "" THEN "0" ELSE w),
     frac  |-> StripZerosBack(SubSeq(t, Len(t) - g + 1, Len(t)))])

\* the largest j for which a multiple of 10^j lies between lo and hi; a
\* decimal of 17 significant digits always does
Coarsest(lo, hi) ==
  LET n    == Len(hi)
      fits == {j \in (IF n > 20 THEN n - 20 ELSE 0)..n :
                 ~Less(Limbs(Floored(hi, j)), Limbs(lo))}
  IN  CHOOSE x \in fits : \A y \in fits : y <= x

\* of the multiples of 10^j between lo and hi the one nearest to d, the
\* even one of two equally near, for the largest j that has one
Nearest(lo, d, hi) ==
  Then(Coarsest(lo, hi), LAMBDA j :
    Then(Limbs(Floored(d, j)), LAMBDA down :
      Then(Plus(down, Limbs("1" \o Zeros(j))), LAMBDA up :
        IF Less(down, Limbs(lo)) THEN up
        ELSE IF Less(Limbs(hi), up) THEN down
        ELSE IF \/ AboveHalf(d, j) > 0
                \/ AboveHalf(d, j) = 0 /\ DigitVal(Ch(d, Len(d) - j)) % 2 = 1
        THEN up
        ELSE down)))

\* the decimal of the double m * 2^q; narrow: the neighbour below is half
\* as far as the one above
Shortest(m, q, narrow) ==
  Then(<<InUnits(Twice(Twice(m)), q), InUnits(<<1>>, q)>>, LAMBDA u :
    Then(<<IF narrow THEN Minus(u[1], u[2]) ELSE Minus(u[1], Twice(u[2])),
           Plus(u[1], Twice(u[2]))>>, LAMBDA b :
      Then(<<IF Odd(m) THEN Plus(b[1], <<1>>) ELSE b[1],
             IF Odd(m) THEN Minus(b[2], <<1>>) ELSE b[2]>>, LAMBDA c :
        Then(Digits(c[2]), LAMBDA hi :
          Then(<<Then(Digits(c[1]), LAMBDA t : Zeros(Len(hi) + 1 - Len(t)) \o t),
                 Then(Digits(u[1]), LAMBDA t : Zeros(Len(hi) + 1 - Len(t)) \o t),
                 "0" \o hi>>, LAMBDA s :
            Then(Nearest(s[1], s[2], s[3]), LAMBDA r :
              Positional(Digits(r), IF q >= 2 THEN 0 ELSE 2 - q)))))))

\* the double with mantissa m of p binary digits and binary exponent e
Double(m, p, e) ==
  IF m = <<>> THEN Zero
  ELSE IF p = 53 /\ m = TwoTo53
  THEN IF e >= 1023 THEN Infinity ELSE Shortest(Halve(TwoTo53), e - 51, TRUE)
  ELSE Shortest(m, e - p + 1, m = Halve(TwoTo53) /\ e > -1022)

\* the double nearest to a / b, for a, b > 0: the mantissa is rounded to
\* the nearest, a tie to the even one
Nearby(a, b) ==
  Then(Scaled(a, b), LAMBDA s :
    IF s.e > 1023 THEN Infinity
    ELSE IF Precision(s.e) < 0 THEN Zero
    ELSE Then(Bits([m |-> <<>>, r |-> s.a], s.b, Precision(s.e)), LAMBDA bits :
           Double(IF Less(s.b, bits.r) \/ (bits.r = s.b /\ Odd(bits.m))
                  THEN Plus(bits.m, <<1>>) ELSE bits.m,
                  Precision(s.e), s.e)))

\* the double nearest to the decimal with integer digits int and fraction
\* digits frac.  A decimal of at most 15 significant digits in the range of
\* the normal doubles is the shortest decimal of its double, one of more
\* than 309 integer digits is beyond every double, one below 10^-324 is
\* nearest to zero
ToDouble(int, frac) ==
  Then(<<StripZeros(int), StripZerosBack(frac)>>, LAMBDA d :
    IF d[1] = "" /\ d[2] = "" THEN Zero
    ELSE IF Len(d[1]) > 309 THEN Infinity
    ELSE IF d[1] = "" /\ SpanOf(d[2], 1, {"0"}) > 324 THEN Zero
    ELSE IF /\ Len(StripZeros(d[1] \o d[2])) <= 15
            /\ Len(d[1]) <= 300
            /\ SpanOf(d[2], 1, {"0"}) <= 300
    THEN [whole |-> IF d[1] = "" THEN "0" ELSE d[1], frac |-> d[2]]
    ELSE Nearby(Limbs(d[1] \o d[2]), Limbs("1" \o Zeros(Len(d[2])))))

\* parseInt(t, 10) of a run of decimal digits
parseInt(t) == ToDouble(t, "")

\* parseFloat of a text matching \d+\.?\d*
parseFloat(t) ==
  Then(t, LAMBDA s :
    ToDouble(SubSeq(s, 1, SpanOf(s, 1, Digit) - 1),
             SubSeq(s, SpanOf(s, 1, Digit) + 1, Len(s))))

\* a number n the source writes or counts, as a double
Whole(n) == [whole |-> NatToStr(n), frac |-> ""]

\* Number::toString
NumberToString(r) ==
  IF r = Infinity THEN "Infinity"
  ELSE IF r.whole # "0"
  THEN IF Len(r.whole) <= 21
       THEN r.whole \o (IF r.frac = "" THEN "" ELSE "." \o r.frac)
       ELSE Then(StripZerosBack(r.whole), LAMBDA s :
              Ch(s, 1) \o (IF Len(s) = 1 THEN "" ELSE "." \o SubSeq(s, 2, Len(s)))
                \o "e+" \o NatToStr(Len(r.whole) - 1))
  ELSE IF Len(r.frac) - Len(StripZeros(r.frac)) < 6
  THEN "0" \o (IF r.frac = "" THEN "" ELSE "." \o r.frac)
  ELSE Then(StripZeros(r.frac), LAMBDA s :
         Ch(s, 1) \o (IF Len(s) = 1 THEN "" ELSE "." \o SubSeq(s, 2, Len(s)))
           \o "e-" \o NatToStr(Len(r.frac) - Len(s) + 1))

(***************************************************************************)
(* Regular-expression matching.  A match is [from, to, gfrom, gto]: the    *)
(* matched text is from..(to-1), capture group 1 is gfrom..(gto-1);        *)
(* from = 0 means no match.                                                *)
(***************************************************************************)
NoMatch == [from |-> 0, to |-> 0, gfrom |-> 0, gto |-> 0]

\* end of a match of \d+\.?\d* starting at i (0: none); every quantifier is
\* greedy and what follows it in the patterns below cannot start with a
\* character the quantifier accepts, so the greedy match is the match
NumberEnd(t, i) ==
  LET a == SpanOf(t, i, Digit)
      b == IF a <= Len(t) /\ Ch(t, a) = "." THEN a + 1 ELSE a
  IN  IF a = i THEN 0 ELSE SpanOf(t, b, Digit)

\* end of a match of \d+ starting at i (0: none)
IntEnd(t, i) ==
  LET a == SpanOf(t, i, Digit) IN IF a = i THEN 0 ELSE a

\* String.prototype.match / replace without the g flag: the leftmost match
FirstMatch(t, At(_, _)) ==
  LET hits == {i \in 1..Len(t) : At(t, i).from # 0}
  IN  IF hits = {} THEN NoMatch
      ELSE At(t, CHOOSE i \in hits : \A k \in hits : i <= k)

\* a variant of the year pattern without its word boundaries
YearAtUnbounded(t, i) ==
  IF /\ i + 3 <= Len(t)
     /\ SubSeq(t, i, i + 1) \in {"19", "20"}
     /\ Ch(t, i + 2) \in Digit
     /\ Ch(t, i + 3) \in Digit
  THEN [from |-> i, to |-> i + 4, gfrom |-> i, gto |-> i + 2]
  ELSE NoMatch

\* /\b(19|20)\d{2}\b/ at i
YearAt(t, i) ==
  IF /\ i + 3 <= Len(t)
     /\ WordBoundary(t, i)
     /\ SubSeq(t, i, i + 1) \in {"19", "20"}
     /\ Ch(t, i + 2) \in Digit
     /\ Ch(t, i + 3) \in Digit
     /\ WordBoundary(t, i + 4)
  THEN [from |-> i, to |-> i + 4, gfrom |-> i, gto |-> i + 2]
  ELSE NoMatch

\* /rating\s*[>>=]+\s*(\d+\.?\d*)/i at i
RatingWordFirstAt(t, i) ==
  IF ~LitAt(t, i, "rating") THEN NoMatch
  ELSE LET j == SpanOf(t, i + 6, WhiteSpace)
           k == SpanOf(t, j, Comparator)
           l == SpanOf(t, k, WhiteSpace)
           e == NumberEnd(t, l)
       IN  IF k > j /\ e # 0
           THEN [from |-> i, to |-> e, gfrom |-> l, gto |-> e]
           ELSE NoMatch

\* /[>>=]+\s*(\d+\.?\d*)\s*rating/i at i
RatingWordLastAt(t, i) ==
  IF Ch(t, i) \notin Comparator THEN NoMatch
  ELSE LET k == SpanOf(t, i, Comparator)
           l == SpanOf(t, k, WhiteSpace)
           e == NumberEnd(t, l)
           m == IF e = 0 THEN 0 ELSE SpanOf(t, e, WhiteSpace)
       IN  IF e # 0 /\ LitAt(t, m, "rating")
           THEN [from |-> i, to |-> m + 6, gfrom |-> l, gto |-> e]
           ELSE NoMatch

\* /(\d+\.?\d*)\s*\+/ at i
RatingPlusAt(t, i) ==
  LET e == NumberEnd(t, i)
      m == IF e = 0 THEN 0 ELSE SpanOf(t, e, WhiteSpace)
  IN  IF e # 0 /\ LitAtCS(t, m, "+")
      THEN [from |-> i, to |-> m + 1, gfrom |-> i, gto |-> e]
      ELSE NoMatch

\* /[>>=]\s*(\d+\.?\d*)/ at i
RatingBareAt(t, i) ==
  IF Ch(t, i) \notin Comparator THEN NoMatch
  ELSE LET l == SpanOf(t, i + 1, WhiteSpace)
           e == NumberEnd(t, l)
       IN  IF e # 0
           THEN [from |-> i, to |-> e, gfrom |-> l, gto |-> e]
           ELSE NoMatch

\* /runtime\s*[>>=]+\s*(\d+)/i at i
RuntimeWordAt(t, i) ==
  IF ~LitAt(t, i, "runtime") THEN NoMatch
  ELSE LET j == SpanOf(t, i + 7, WhiteSpace)
           k == SpanOf(t, j, Comparator)
           l == SpanOf(t, k, WhiteSpace)
           e == IntEnd(t, l)
       IN  IF k > j /\ e # 0
           THEN [from |-> i, to |-> e, gfrom |-> l, gto |-> e]
           ELSE NoMatch

\* /longer\s+than\s+(\d+)/i at i
RuntimeLongerAt(t, i) ==
  IF ~LitAt(t, i, "longer") THEN NoMatch
  ELSE LET j == SpanOf(t, i + 6, WhiteSpace)
           k == IF LitAt(t, j, "than") THEN SpanOf(t, j + 4, WhiteSpace) ELSE 0
           e == IF k = 0 THEN 0 ELSE IntEnd(t, k)
       IN  IF j > i + 6 /\ k > j + 4 /\ e # 0
           THEN [from |-> i, to |-> e, gfrom |-> k, gto |-> e]
           ELSE NoMatch

\* /[>>=]\s*(\d+)\s*min/i at i
RuntimeMinAt(t, i) ==
  IF Ch(t, i) \notin Comparator THEN NoMatch
  ELSE LET l == SpanOf(t, i + 1, WhiteSpace)
           e == IntEnd(t, l)
           m == IF e = 0 THEN 0 ELSE SpanOf(t, e, WhiteSpace)
       IN  IF e # 0 /\ LitAt(t, m, "min")
           THEN [from |-> i, to |-> m + 3, gfrom |-> l, gto |-> e]
           ELSE NoMatch

(***************************************************************************)
(* Genre lexicon (constants/genres.ts).                                    *)
(***************************************************************************)
GENRE_INFO ==
  <<
    [id |-> 28, name |-> "Action",
     keywords |-> << "action", "action-packed", "fights", "fighting", "martial arts" >>],
    [id |-> 12, name |-> "Adventure",
     keywords |-> << "adventure", "quest", "journey", "exploration" >>],
    [id |-> 16, name |-> "Animation",
     keywords |-> << "animation", "animated", "cartoon", "anime" >>],
    [id |-> 35, name |-> "Comedy",
     keywords |-> << "comedy", "funny", "humor", "humorous", "laugh", "hilarious" >>],
    [id |-> 80, name |-> "Crime",
     keywords |-> << "crime", "criminal", "heist", "robbery", "detective", "mafia", "gangster" >>],
    [id |-> 99, name |-> "Documentary",
     keywords |-> << "documentary", "doc", "real", "true story", "based on" >>],
    [id |-> 18, name |-> "Drama",
     keywords |-> << "drama", "dramatic", "emotional", "serious" >>],
    [id |-> 10751, name |-> "Family",
     keywords |-> << "family", "kids", "children", "family-friendly" >>],
    [id |-> 14, name |-> "Fantasy",
     keywords |-> << "fantasy", "magic", "magical", "wizard", "supernatural", "mythical" >>],
    [id |-> 36, name |-> "History",
     keywords |-> << "history", "historical", "period", "era", "wwii", "war" >>],
    [id |-> 27, name |-> "Horror",
     keywords |-> << "horror", "scary", "terror", "terrifying", "zombie", "haunted", "ghost" >>],
    [id |-> 10402, name |-> "Music",
     keywords |-> << "music", "musical", "concert", "band", "singer" >>],
    [id |-> 9648, name |-> "Mystery",
     keywords |-> << "mystery", "mysterious", "whodunit", "suspense" >>],
    [id |-> 10749, name |-> "Romance",
     keywords |-> << "romance", "romantic", "love", "relationship", "dating" >>],
    [id |-> 878, name |-> "Science Fiction",
     keywords |-> << "sci-fi", "science fiction", "scifi", "space", "alien", "future", "dystopia" >>],
    [id |-> 10770, name |-> "TV Movie",
     keywords |-> << "tv movie", "television" >>],
    [id |-> 53, name |-> "Thriller",
     keywords |-> << "thriller", "suspense", "intense", "gripping" >>],
    [id |-> 10752, name |-> "War",
     keywords |-> << "war", "military", "battle", "soldier", "combat" >>],
    [id |-> 37, name |-> "Western",
     keywords |-> << "western", "cowboy", "wild west", "frontier" >>]
  >>

\* a variant that stops at the first genre that matches
findGenresInTextFirst(text) ==
  Then(toLowerCase(text), LAMBDA lowerText :
    LET Hit(g) == \/ includes(lowerText, toLowerCase(g.name))
                  \/ \E k \in 1..Len(g.keywords) : includes(lowerText, g.keywords[k])
        found == SelectSeq(GENRE_INFO, Hit)
    IN  IF Len(found) = 0 THEN <<>> ELSE <<found[1].id>>)

\* findGenresInText: ids of the genres whose name or one of whose keywords is
\* contained in the lower-cased text, in table order (a Set keeps insertion
\* order and every genre adds only its own id)
findGenresInText(text) ==
  Then(toLowerCase(text), LAMBDA lowerText :
    LET Hit(g) == \/ includes(lowerText, toLowerCase(g.name))
                  \/ \E k \in 1..Len(g.keywords) : includes(lowerText, g.keywords[k])
        found == SelectSeq(GENRE_INFO, Hit)
    IN  [i \in 1..Len(found) |-> found[i].id])

(***************************************************************************)
(* Query parser (utils/queryParser.ts).  An optional field is <<>> when    *)
(* undefined and <<v>> when it holds v.                                    *)
(***************************************************************************)
None == <<>>
Some(v) == <<v>>

\* a variant of the shortlist that also holds keywords of the lexicon
genreWordsAndKeywords ==
  << "action", "adventure", "animation", "comedy", "crime", "documentary",
     "drama", "family", "fantasy", "history", "horror", "music", "mystery",
     "romance", "sci-fi", "science fiction", "thriller", "war", "western",
     "zombie", "funny", "cowboy", "suspense", "scary", "heist" >>

genreWords ==
  << "action", "adventure", "animation", "comedy", "crime", "documentary",
     "drama", "family", "fantasy", "history", "horror", "music", "mystery",
     "romance", "sci-fi", "science fiction", "thriller", "war", "western" >>

RECURSIVE CutAll(_, _, _, _)
\* replace(/.../g, '') for a pattern whose matches all have length len and
\* start at the positions in starts: scan left to right, skip each match
CutAll(t, starts, len, i) ==
  IF i > Len(t) THEN ""
  ELSE IF i \in starts THEN CutAll(t, starts, len, i + len)
  ELSE Ch(t, i) \o CutAll(t, starts, len, i + 1)

\* new RegExp(`\\b${word}\\b`, 'gi') at i
GenreWordAt(t, i, word) ==
  /\ WordBoundary(t, i)
  /\ LitAt(t, i, word)
  /\ WordBoundary(t, i + Len(word))

\* remainingText.replace(regex, '').trim() for one word of genreWords
StripGenreWord(t, word) ==
  trim(CutAll(t, {i \in 1..Len(t) : GenreWordAt(t, i, word)}, Len(word), 1))

RECURSIVE StripGenreWords(_, _)
\* genreWords.forEach(word => remainingText = remainingText.replace(regex, '').trim());
StripGenreWords(t, words) ==
  IF Len(words) = 0 THEN t
  ELSE CHOOSE r \in {StripGenreWords(rest, Tail(words)) :
                        rest \in {StripGenreWord(t, Head(words))}} : TRUE

RECURSIVE CollapseSpaces(_, _)
\* replace(/\s+/g, ' ')
CollapseSpaces(t, i) ==
  IF i > Len(t) THEN ""
  ELSE IF Ch(t, i) \in WhiteSpace
       THEN " " \o CollapseSpaces(t, SpanOf(t, i, WhiteSpace))
       ELSE Ch(t, i) \o CollapseSpaces(t, i + 1)

\* a variant that takes the leftmost match of any of the four patterns
RatingMatchLeftmost(t) ==
  LET ms   == {FirstMatch(t, RatingWordFirstAt), FirstMatch(t, RatingWordLastAt),
               FirstMatch(t, RatingPlusAt), FirstMatch(t, RatingBareAt)}
      hits == {m \in ms : m.from # 0}
  IN  IF hits = {} THEN NoMatch
      ELSE CHOOSE m \in hits : \A k \in hits : m.from <= k.from

\* the first of the four rating patterns, in array order, that matches
RatingMatch(t) ==
  LET m1 == FirstMatch(t, RatingWordFirstAt)
      m2 == FirstMatch(t, RatingWordLastAt)
      m3 == FirstMatch(t, RatingPlusAt)
      m4 == FirstMatch(t, RatingBareAt)
  IN  IF m1.from # 0 THEN m1
      ELSE IF m2.from # 0 THEN m2
      ELSE IF m3.from # 0 THEN m3
      ELSE m4

\* the first of the three runtime patterns, in array order, that matches
RuntimeMatch(t) ==
  LET m1 == FirstMatch(t, RuntimeWordAt)
      m2 == FirstMatch(t, RuntimeLongerAt)
      m3 == FirstMatch(t, RuntimeMinAt)
  IN  IF m1.from # 0 THEN m1
      ELSE IF m2.from # 0 THEN m2
      ELSE m3

\* result = { useDiscover: false }, remainingText = query.trim()
EmptyResult ==
  [useDiscover |-> FALSE, year |-> None, minRating |-> None,
   minRuntime |-> None, genres |-> None, textQuery |-> None]

\* 1. year: the first match is the year, every match is removed
ExtractYear(s) ==
  LET t      == s.remainingText
      starts == {i \in 1..Len(t) : YearAt(t, i).from # 0}
      y0     == CHOOSE i \in starts : \A k \in starts : i <= k
  IN  IF starts = {} THEN s
      ELSE [s EXCEPT !.year = Some(parseInt(SubSeq(t, y0, y0 + 3))),
                     !.useDiscover = TRUE,
                     !.remainingText = trim(CutAll(t, starts, 4, 1))]

\* 2. rating: the first pattern that matches, then break
ExtractRating(s) ==
  LET t == s.remainingText
  IN  Then(RatingMatch(t), LAMBDA m :
        IF m.from = 0 THEN s
        ELSE [s EXCEPT !.minRating = Some(parseFloat(SubSeq(t, m.gfrom, m.gto - 1))),
                       !.useDiscover = TRUE,
                       !.remainingText = trim(Cut(t, m.from, m.to))])

\* a variant that records the runtime without raising the flag
ExtractRuntimeUnflagged(s) ==
  LET t == s.remainingText
  IN  Then(RuntimeMatch(t), LAMBDA m :
        IF m.from = 0 THEN s
        ELSE [s EXCEPT !.minRuntime = Some(parseInt(SubSeq(t, m.gfrom, m.gto - 1))),
                       !.remainingText = trim(Cut(t, m.from, m.to))])

\* 3. runtime: the first pattern that matches, then break
ExtractRuntime(s) ==
  LET t == s.remainingText
  IN  Then(RuntimeMatch(t), LAMBDA m :
        IF m.from = 0 THEN s
        ELSE [s EXCEPT !.minRuntime = Some(parseInt(SubSeq(t, m.gfrom, m.gto - 1))),
                       !.useDiscover = TRUE,
                       !.remainingText = trim(Cut(t, m.from, m.to))])

\* a variant that leaves the genre words in the remaining text
ExtractGenresUnconsumed(s) ==
  Then(findGenresInText(s.remainingText), LAMBDA foundGenres :
    IF Len(foundGenres) = 0 THEN s
    ELSE [s EXCEPT !.genres = Some([i \in 1..Len(foundGenres) |->
                                      NatToStr(foundGenres[i])]),
                   !.useDiscover = TRUE])

\* 4. genres: ids as strings; the primary genre words are removed
ExtractGenres(s) ==
  Then(findGenresInText(s.remainingText), LAMBDA foundGenres :
    IF Len(foundGenres) = 0 THEN s
    ELSE [s EXCEPT !.genres = Some([i \in 1..Len(foundGenres) |->
                                      NatToStr(foundGenres[i])]),
                   !.useDiscover = TRUE,
                   !.remainingText = StripGenreWords(s.remainingText, genreWords)])

\* 5. what is left, with runs of white space collapsed, is the text query
ExtractText(s) ==
  Then(trim(CollapseSpaces(s.remainingText, 1)), LAMBDA t :
    [useDiscover |-> s.useDiscover, year |-> s.year, minRating |-> s.minRating,
     minRuntime |-> s.minRuntime, genres |-> s.genres,
     textQuery |-> IF Len(t) > 0 THEN Some(t) ELSE None])

parseSearchQuery(query) ==
  IF Len(query) = 0 \/ Len(trim(query)) = 0
  THEN EmptyResult
  ELSE Then(Then(Then(Then(Then(
         EmptyResult @@ [remainingText |-> trim(query)],
         ExtractYear), ExtractRating), ExtractRuntime), ExtractGenres), ExtractText)

RECURSIVE join(_, _)
\* Array.prototype.join
join(parts, sep) ==
  IF Len(parts) = 0 THEN ""
  ELSE IF Len(parts) = 1 THEN parts[1]
  ELSE parts[1] \o sep \o join(Tail(parts), sep)

\* a variant that passes the remaining text on as a parameter of its own
toDiscoverParamsWithText(parsed) ==
  [primary_release_year |-> IF parsed.year # None /\ parsed.year[1] # Zero
                            THEN parsed.year ELSE None,
   vote_average_gte     |-> parsed.minRating,
   vote_count_gte       |-> IF parsed.minRating # None THEN Some(100) ELSE None,
   vote_average_lte     |-> IF "maxRating" \in DOMAIN parsed THEN parsed.maxRating ELSE None,
   with_genres          |-> IF parsed.genres # None /\ Len(parsed.genres[1]) > 0
                            THEN Some(join(parsed.genres[1], ","))
                            ELSE None,
   with_runtime_gte     |-> parsed.minRuntime,
   with_runtime_lte     |-> IF "maxRuntime" \in DOMAIN parsed THEN parsed.maxRuntime ELSE None,
   with_text_query      |-> parsed.textQuery,
   sort_by              |-> "popularity.desc"]

\* a variant that tests minRating for truth, as the year is tested, so that
\* a rating of 0 is dropped
toDiscoverParamsTruthyRating(parsed) ==
  [primary_release_year |-> IF parsed.year # None /\ parsed.year[1] # Zero
                            THEN parsed.year ELSE None,
   vote_average_gte     |-> IF parsed.minRating # None /\ parsed.minRating[1] # Zero
                            THEN parsed.minRating ELSE None,
   vote_count_gte       |-> IF parsed.minRating # None /\ parsed.minRating[1] # Zero
                            THEN Some(100) ELSE None,
   vote_average_lte     |-> IF "maxRating" \in DOMAIN parsed THEN parsed.maxRating ELSE None,
   with_genres          |-> IF parsed.genres # None /\ Len(parsed.genres[1]) > 0
                            THEN Some(join(parsed.genres[1], ","))
                            ELSE None,
   with_runtime_gte     |-> parsed.minRuntime,
   with_runtime_lte     |-> IF "maxRuntime" \in DOMAIN parsed THEN parsed.maxRuntime ELSE None,
   sort_by              |-> "popularity.desc"]

\* toDiscoverParams; maxRating and maxRuntime are never set by the parser,
\* the mapper copies them when a caller supplies them
toDiscoverParams(parsed) ==
  [primary_release_year |-> IF parsed.year # None /\ parsed.year[1] # Zero
                            THEN parsed.year ELSE None,
   vote_average_gte     |-> parsed.minRating,
   vote_count_gte       |-> IF parsed.minRating # None THEN Some(100) ELSE None,
   vote_average_lte     |-> IF "maxRating" \in DOMAIN parsed THEN parsed.maxRating ELSE None,
   with_genres          |-> IF parsed.genres # None /\ Len(parsed.genres[1]) > 0
                            THEN Some(join(parsed.genres[1], ","))
                            ELSE None,
   with_runtime_gte     |-> parsed.minRuntime,
   with_runtime_lte     |-> IF "maxRuntime" \in DOMAIN parsed THEN parsed.maxRuntime ELSE None,
   sort_by              |-> "popularity.desc"]

(***************************************************************************)
(* useSmartMovieSearch (hooks/useSmartMovieSearch.ts) on top of            *)
(* useDebounce and the three query hooks of services/tmdb.api.             *)
(*                                                                         *)
(* One step of the model is one event of the single-threaded runtime: a    *)
(* callback of the hook invoked by the screen, a clock tick, the debounce  *)
(* timer firing, a response of the movie API, or Commit: one render of     *)
(* the hook together with the effects it schedules.  Callbacks see the     *)
(* values of the last committed render (out); no other event runs between  *)
(* an update and the commits it causes.                                    *)
(***************************************************************************)

\* the inputs the screen can put in the search box
Queries == {"", " ", "up", "it", "7+"}

\* debounceDelay in clock ticks (500 ms in the source)
DelayTicks == 2
\* the events from outside in one session: callbacks invoked, the unmount,
\* removals of unused cache entries
MaxEvents == 3
\* the largest total_pages the movie API reports
MaxPages == 3

\* a movie is its id; a response page is a list of movies
UpstreamResponses ==
  {[results |-> <<1, 2>>, total_pages |-> MaxPages],
   [results |-> <<2, 3>>, total_pages |-> MaxPages],
   [results |-> <<3, 3>>, total_pages |-> 1]}
UpstreamErrors == {"FETCH_ERROR"}

Endpoints == {"popular", "search", "discover"}

\* a variant that tests the debounced query for emptiness without trimming it
apiModeUntrimmed(debouncedQuery, useDiscover) ==
  IF Len(debouncedQuery) = 0 THEN "popular"
  ELSE IF useDiscover THEN "discover"
  ELSE "search"

\* the useMemo that determines the API mode
apiModeOf(debouncedQuery, useDiscover) ==
  IF Len(trim(debouncedQuery)) = 0 THEN "popular"
  ELSE IF useDiscover THEN "discover"
  ELSE "search"

\* a variant in which no query hook is ever skipped
skipNone(h, mode) == FALSE

\* skip option of the query hook of endpoint h
skip(h, mode) == mode # h

\* a variant that sends the debounced query as it is
searchTermRaw(parsed, debouncedQuery) == debouncedQuery

\* the query a search request carries
searchTerm(parsed, debouncedQuery) ==
  IF parsed.textQuery # None /\ Len(parsed.textQuery[1]) > 0
  THEN parsed.textQuery[1]
  ELSE debouncedQuery

\* JSON text of an optional request parameter
paramText(name, value, text) ==
  IF value = None THEN "" ELSE "," \o name \o ":" \o text

\* JSON text of a number: Infinity has none and is written null
numberText(r) == IF r = Infinity THEN "null" ELSE NumberToString(r)

\* JSON text of the discover parameters
discoverText(p) ==
  "sort_by:" \o p.sort_by
  \o paramText("primary_release_year", p.primary_release_year,
               IF p.primary_release_year = None THEN ""
               ELSE numberText(p.primary_release_year[1]))
  \o paramText("vote_average.gte", p.vote_average_gte,
               IF p.vote_average_gte = None THEN ""
               ELSE numberText(p.vote_average_gte[1]))
  \o paramText("vote_count.gte", p.vote_count_gte,
               IF p.vote_count_gte = None THEN ""
               ELSE NatToStr(p.vote_count_gte[1]))
  \o paramText("with_genres", p.with_genres,
               IF p.with_genres = None THEN "" ELSE p.with_genres[1])
  \o paramText("with_runtime.gte", p.with_runtime_gte,
               IF p.with_runtime_gte = None THEN ""
               ELSE numberText(p.with_runtime_gte[1]))

\* the argument of the query hook of endpoint h as the cache key serialises
\* it (endpoint name and argument)
queryArg(h, parsed, debouncedQuery, pg) ==
  CASE h = "popular"  -> "getPopularMovies(" \o NatToStr(pg) \o ")"
    [] h = "search"   -> "searchMovies(query:" \o searchTerm(parsed, debouncedQuery)
                         \o ",page:" \o NatToStr(pg) \o ")"
    [] h = "discover" -> "discoverMovies(" \o Then(toDiscoverParams(parsed), discoverText)
                         \o ",page:" \o NatToStr(pg) \o ")"

\* a cache entry: its status, the data of its last success, the error of its
\* last failure, and gen, which tells the object that holds the data from
\* equal data an earlier entry of the same key held
Uninitialized == [status |-> "uninitialized", data |-> None, error |-> None, gen |-> 0]

VARIABLES
  searchQuery,        \* useState('') of the hook
  page,               \* useState(1)
  accumulatedMovies,  \* useState([])
  debouncedValue,     \* useState(value) of useDebounce
  timer,              \* the pending timeouts of useDebounce, oldest first: [left, value]
  cache,              \* the query cache of the api slice: cache key -> entry
  lastValue,          \* per query hook, its last result: [data, isLoading, isUninitialized]
  out,                \* what the last render computed and returned
  flushed,            \* the last render whose passive effects have run
  phase,              \* "render": an update awaits its render; "timeout": an
                      \* update made by a timeout callback does; "effects": the
                      \* passive effects of the last render are still to run;
                      \* "stale": they are, and the store state that render
                      \* selected has changed; "idle": nothing is to run;
                      \* "unmounted": the screen is gone
  events              \* callbacks invoked, unmount and removals of entries so far

vars == <<searchQuery, page, accumulatedMovies, debouncedValue, timer, cache,
          lastValue, out, flushed, phase, events>>

(***************************************************************************)
(* The query hooks (useQuery of the api slice).  The state a hook selects  *)
(* is the cache entry of its argument, or the uninitialized state when the *)
(* hook is skipped or the entry does not exist.  A hook result carries the *)
(* last data the hook has seen, whatever its current argument, until the   *)
(* request for the current argument succeeds.  Data of one cache entry is  *)
(* one object as long as its content is equal (structural sharing), so a   *)
(* data reference is the entry's key, content and gen.                     *)
(***************************************************************************)
\* the cache entry of key k; a key never requested has none
Entry(c, k) == IF k \in DOMAIN c THEN c[k] ELSE Uninitialized

\* the cache with the entry of key k set to e
WithEntry(c, k, e) == [x \in DOMAIN c \cup {k} |-> IF x = k THEN e ELSE c[x]]

currentState(arg, skipped, c) == IF skipped THEN Uninitialized ELSE Entry(c, arg)

\* data of a hook result: the data of the current entry when it is
\* fulfilled, else the data of the last result, else the data of the entry
hookData(h, arg, skipped, c, l) ==
  Then(currentState(arg, skipped, c), LAMBDA cur :
    IF cur.status = "fulfilled"
    THEN Some([key |-> arg, content |-> cur.data[1], gen |-> cur.gen])
    ELSE IF l[h] # None /\ l[h][1].data # None THEN l[h][1].data
    ELSE IF cur.data # None
    THEN Some([key |-> arg, content |-> cur.data[1], gen |-> cur.gen])
    ELSE None)

\* isLoading before selectFromResult: a request is in flight, the hook has
\* no data, and its last result, if any, was loading or uninitialized
hookIsLoadingSelected(h, arg, skipped, c, l) ==
  /\ l[h] = None \/ l[h][1].isLoading \/ l[h][1].isUninitialized
  /\ hookData(h, arg, skipped, c, l) = None
  /\ currentState(arg, skipped, c).status = "pending"

\* isLoading of a hook result: a hook that is not skipped reports a query
\* that has not started yet as pending, loading iff the hook has no data
hookIsLoading(h, arg, skipped, c, l) ==
  IF ~skipped /\ currentState(arg, skipped, c).status = "uninitialized"
  THEN hookData(h, arg, skipped, c, l) = None
  ELSE hookIsLoadingSelected(h, arg, skipped, c, l)

\* a variant that returns the error of any request that has failed,
\* whichever argument and hook it belongs to
hookErrorOfAny(arg, skipped, c) ==
  LET failed == {k \in DOMAIN c : c[k].error # None}
  IN  IF failed = {} THEN None ELSE c[CHOOSE k \in failed : TRUE].error

\* error of a query hook: the error of the request of its argument
hookError(arg, skipped, c) == currentState(arg, skipped, c).error

\* a variant that also counts the last page as having more
hasMoreInclusive(pg, totalPages) == pg <= totalPages

\* page < totalPages
hasMoreOf(pg, totalPages) == pg < totalPages

\* data?.total_pages || 0
totalPagesOf(data) == IF data = None THEN 0 ELSE data[1].content.total_pages

\* the memoised values of a render: recomputed when the debounced query is
\* not the one of the previous render
Memo(prev, dv) ==
  IF prev.mounted /\ prev.debouncedQuery = dv
  THEN [parsedQuery |-> prev.parsedQuery, apiMode |-> prev.apiMode]
  ELSE Then(parseSearchQuery(dv), LAMBDA parsed :
         [parsedQuery |-> parsed, apiMode |-> apiModeOf(dv, parsed.useDiscover)])

\* the arguments of the three query hooks in a render
hookArgs(prev, parsed, dv, pg) ==
  IF prev.mounted /\ prev.debouncedQuery = dv /\ prev.currentPage = pg
  THEN prev.args
  ELSE [h \in Endpoints |-> queryArg(h, parsed, dv, pg)]

\* one execution of the hook body: everything it computes from its state
Render(prev, sq, pg, acc, dv, c, l) ==
  Then(Memo(prev, dv), LAMBDA m :
  Then(hookArgs(prev, m.parsedQuery, dv, pg), LAMBDA args :
  Then(hookData(m.apiMode, args[m.apiMode], skip(m.apiMode, m.apiMode), c, l),
       LAMBDA data :
    [mounted        |-> TRUE,
     searchQuery    |-> sq,
     debouncedQuery |-> dv,
     parsedQuery    |-> m.parsedQuery,
     apiMode        |-> m.apiMode,
     args           |-> args,
     currentPage    |-> pg,
     data           |-> data,
     isLoading      |-> hookIsLoading(m.apiMode, args[m.apiMode],
                                      skip(m.apiMode, m.apiMode), c, l),
     error          |-> hookError(args[m.apiMode], skip(m.apiMode, m.apiMode), c),
     totalPages     |-> totalPagesOf(data),
     hasMore        |-> hasMoreOf(pg, totalPagesOf(data)),
     movies         |-> acc])))

\* before the first render nothing has been rendered: every effect runs
NotRendered == [mounted |-> FALSE]

Init ==
  /\ searchQuery = ""
  /\ page = 1
  /\ accumulatedMovies = <<>>
  /\ debouncedValue = ""
  /\ timer = None
  /\ cache = [k \in {} |-> Uninitialized]
  /\ lastValue = [h \in Endpoints |-> None]
  /\ out = NotRendered
  /\ flushed = NotRendered
  /\ phase = "render"
  /\ events = 0

\* updates were made: a render follows iff a state of the hook was set to
\* another value than it held (stateSet; a setter given the value held
\* schedules nothing) or the store state the hook selects, the cache entry
\* of the request of the hook that render o did not skip, is another one
\* in c2 than it was in c.  Whether the render will return other values
\* does not count
phaseAfter(stateSet, o, c, c2) ==
  IF stateSet \/ Entry(c2, o.args[o.apiMode]) # Entry(c, o.args[o.apiMode])
  THEN "render" ELSE "idle"

(***************************************************************************)
(* The effects of a commit.                                                *)
(***************************************************************************)
\* the query thunk's condition: a request is started unless one is in
\* flight or the entry has been fulfilled before
startsRequest(entry) ==
  /\ entry.status # "pending"
  /\ entry.data = None

\* the subscription effect of the query hook of endpoint h: on a new
\* argument (or on leaving skip) the request for it is initiated
subscribes(h, prev, cur) ==
  /\ ~skip(h, cur.apiMode)
  /\ \/ ~prev.mounted
     \/ skip(h, prev.apiMode)
     \/ prev.args[h] # cur.args[h]

\* the cache after the subscription effects of the three query hooks
subscribed(prev, cur, c) ==
  LET started == {cur.args[h] : h \in {x \in Endpoints :
                     subscribes(x, prev, cur) /\ startsRequest(Entry(c, cur.args[x]))}}
  IN  [k \in DOMAIN c \cup started |->
         IF k \in started THEN [Entry(c, k) EXCEPT !.status = "pending"] ELSE c[k]]

\* a variant that appends a later page without looking at the ids present
accumulateUnfiltered(prev, results, pg) ==
  IF pg = 1 THEN results ELSE prev \o results

\* effect [data, page]: first page replaces, later pages append what is new
accumulate(prev, results, pg) ==
  IF pg = 1 THEN results
  ELSE LET existingIds == {prev[i] : i \in 1..Len(prev)}
           IsNew(m) == m \notin existingIds
       IN  prev \o SelectSeq(results, IsNew)

\* a variant of the effect with the error among its dependencies: it also
\* runs in the render that shows a failure
accumulateRunsOnError(prev, cur) ==
  \/ ~prev.mounted
  \/ prev.data # cur.data
  \/ prev.currentPage # cur.currentPage
  \/ prev.error # cur.error

\* dependencies [data, page] of the accumulate effect
accumulateRuns(prev, cur) ==
  \/ ~prev.mounted
  \/ prev.data # cur.data
  \/ prev.currentPage # cur.currentPage

\* effect [debouncedQuery, apiMode]
resetRuns(prev, cur) ==
  \/ ~prev.mounted
  \/ prev.debouncedQuery # cur.debouncedQuery
  \/ prev.apiMode # cur.apiMode

\* a variant whose effect runs on mount only, so that a new value neither
\* cancels the timer nor sets one
debounceRunsOnMount(prev, cur) == ~prev.mounted

\* effect [value, delay] of useDebounce: clearTimeout of the previous run,
\* then setTimeout
debounceRuns(prev, cur) ==
  \/ ~prev.mounted
  \/ prev.searchQuery # cur.searchQuery

\* a variant of the cleanup that leaves the timeout it should cancel pending
clearNothing(timers) == timers

\* the cleanup of the effect: clearTimeout(handler), handler being the
\* timeout set by the effect run the cleanup belongs to, the last one set
clearTimeout(timers) ==
  IF Len(timers) = 0 THEN timers ELSE SubSeq(timers, 1, Len(timers) - 1)

\* setTimeout(() => setDebouncedValue(value), delay)
setTimeout(timers, value, delay) ==
  Append(timers, [left |-> delay, value |-> value])

\* the result each query hook selected in this render, which the hook keeps
\* as its last result
hookResults(cur, c, l) ==
  [h \in Endpoints |->
     Some([data            |-> hookData(h, cur.args[h], skip(h, cur.apiMode), c, l),
           isLoading       |-> hookIsLoadingSelected(h, cur.args[h],
                                                     skip(h, cur.apiMode), c, l),
           isUninitialized |-> currentState(cur.args[h], skip(h, cur.apiMode),
                                            c).status = "uninitialized"])]

\* the effects of a commit set a state to another value: the reset effect
\* gives setAccumulatedMovies a new array; the accumulate effect gives it a
\* new array too, or the array data.results, which is not the list held
\* when the effect runs for it (data, or the page, has just become another)
effectsSetState(prev, cur) ==
  \/ resetRuns(prev, cur)
  \/ accumulateRuns(prev, cur) /\ cur.data # None

\* accumulatedMovies after the accumulate and the reset effect of a commit
accumulated(prev, cur, acc) ==
  IF resetRuns(prev, cur) THEN <<>>
  ELSE IF accumulateRuns(prev, cur) /\ cur.data # None
  THEN accumulate(acc, cur.data[1].content.results, cur.currentPage)
  ELSE acc

\* a render and the passive effects that follow it.  The render is made
\* in a callback or in the response to a request: its passive effects run
\* before the next timeout callback does
Commit ==
  /\ phase = "render"
  /\ \E cur \in {Render(out, searchQuery, page, accumulatedMovies, debouncedValue,
                        cache, lastValue)} :
       /\ out' = cur
       /\ flushed' = cur
       /\ timer' = IF debounceRuns(flushed, cur)
                   THEN setTimeout(clearTimeout(timer), cur.searchQuery, DelayTicks)
                   ELSE timer
       /\ cache' = subscribed(flushed, cur, cache)
       /\ lastValue' = hookResults(cur, cache, lastValue)
       /\ accumulatedMovies' = accumulated(flushed, cur, accumulatedMovies)
       /\ page' = IF resetRuns(flushed, cur) THEN 1 ELSE page
       /\ phase' = phaseAfter(effectsSetState(flushed, cur), cur, cache, cache')
  /\ UNCHANGED <<searchQuery, debouncedValue, events>>

\* the render a timeout callback makes (setDebouncedValue renders before it
\* returns).  The hooks take their results; the passive effects are left
\* for later, after the timeout callbacks that are due at the same time
TimeoutRender ==
  /\ phase = "timeout"
  /\ out' = Render(out, searchQuery, page, accumulatedMovies, debouncedValue,
                   cache, lastValue)
  /\ lastValue' = hookResults(out', cache, lastValue)
  /\ phase' = "effects"
  /\ UNCHANGED <<searchQuery, page, accumulatedMovies, debouncedValue, timer, cache,
                 flushed, events>>

\* the passive effects of the render of a timeout callback, with the cache
\* as it is by now.  The store subscription of the hook looks at the store
\* again: when the state it selects has changed since the render ("stale")
\* it has the hook rendered again
PassiveEffects ==
  /\ phase \in {"effects", "stale"}
  /\ flushed' = out
  /\ timer' = IF debounceRuns(flushed, out)
              THEN setTimeout(clearTimeout(timer), out.searchQuery, DelayTicks)
              ELSE timer
  /\ cache' = subscribed(flushed, out, cache)
  /\ accumulatedMovies' = accumulated(flushed, out, accumulatedMovies)
  /\ page' = IF resetRuns(flushed, out) THEN 1 ELSE page
  /\ phase' = phaseAfter(phase = "stale" \/ effectsSetState(flushed, out),
                         out, cache, cache')
  /\ UNCHANGED <<searchQuery, debouncedValue, lastValue, out, events>>

(***************************************************************************)
(* The callbacks the hook returns.  They are closures of the last          *)
(* committed render, so they read out.  setAccumulatedMovies([]) gives the *)
(* state a new array, which is never the array held: a render follows the  *)
(* callbacks that call it, whatever the values were.                       *)
(***************************************************************************)
\* handleSetSearchQuery
HandleSetSearchQuery(q) ==
  /\ phase = "idle"
  /\ events < MaxEvents
  /\ searchQuery' = q
  /\ page' = 1
  /\ accumulatedMovies' = <<>>
  /\ events' = events + 1
  /\ phase' = phaseAfter(TRUE, out, cache, cache)
  /\ UNCHANGED <<debouncedValue, timer, cache, lastValue, out, flushed>>

\* the user types: the search box holds another text than none
SetSearchQuery == \E q \in Queries \ {""} : HandleSetSearchQuery(q)

\* a variant of clearSearch that leaves the accumulated list as it is
ClearSearchKeepsList ==
  /\ phase = "idle"
  /\ events < MaxEvents
  /\ searchQuery' = ""
  /\ page' = 1
  /\ events' = events + 1
  /\ phase' = phaseAfter(searchQuery # "" \/ page # 1, out, cache, cache)
  /\ UNCHANGED <<accumulatedMovies, debouncedValue, timer, cache, lastValue, out, flushed>>

\* clearSearch
ClearSearch ==
  /\ phase = "idle"
  /\ events < MaxEvents
  /\ searchQuery' = ""
  /\ page' = 1
  /\ accumulatedMovies' = <<>>
  /\ events' = events + 1
  /\ phase' = phaseAfter(TRUE, out, cache, cache)
  /\ UNCHANGED <<debouncedValue, timer, cache, lastValue, out, flushed>>

\* a variant of loadMore without its guard
LoadMoreUnguarded ==
  /\ phase = "idle"
  /\ events < MaxEvents
  /\ page' = page + 1
  /\ events' = events + 1
  /\ phase' = phaseAfter(page' # page, out, cache, cache)
  /\ UNCHANGED <<searchQuery, accumulatedMovies, debouncedValue, timer, cache,
                 lastValue, out, flushed>>

\* loadMore
LoadMore ==
  /\ phase = "idle"
  /\ events < MaxEvents
  /\ page' = IF ~out.isLoading /\ out.hasMore THEN page + 1 ELSE page
  /\ events' = events + 1
  /\ phase' = phaseAfter(page' # page, out, cache, cache)
  /\ UNCHANGED <<searchQuery, accumulatedMovies, debouncedValue, timer, cache,
                 lastValue, out, flushed>>

\* refetch of the query hook of endpoint h: a forced request for the
\* argument the hook is subscribed to, unless one is in flight
refetched(h, c) ==
  IF ~skip(h, out.apiMode) /\ Entry(c, out.args[h]).status # "pending"
  THEN WithEntry(c, out.args[h], [Entry(c, out.args[h]) EXCEPT !.status = "pending"])
  ELSE c

\* refetch: the refetch of the hook the mode selects
refetch(c) == refetched(out.apiMode, c)

Refresh ==
  /\ phase = "idle"
  /\ events < MaxEvents
  /\ page' = 1
  /\ accumulatedMovies' = <<>>
  /\ cache' = refetch(cache)
  /\ events' = events + 1
  /\ phase' = phaseAfter(TRUE, out, cache, cache')
  /\ UNCHANGED <<searchQuery, debouncedValue, timer, lastValue, out, flushed>>

(***************************************************************************)
(* Time and the debounce timer (useDebounce).                              *)
(***************************************************************************)
\* time passes for every pending timeout; a timeout that is due runs first
Tick ==
  /\ phase \in {"idle", "unmounted"}
  /\ timer # None
  /\ timer[1].left > 0
  /\ timer' = [i \in 1..Len(timer) |-> [timer[i] EXCEPT !.left = @ - 1]]
  /\ UNCHANGED <<searchQuery, page, accumulatedMovies, debouncedValue, cache,
                 lastValue, out, flushed, phase, events>>

\* the setTimeout callback: setDebouncedValue(value); a state update of a
\* component that is unmounted is dropped.  The render it makes is the
\* render of a timeout callback
TimerFire ==
  /\ phase \in {"idle", "unmounted"}
  /\ timer # None
  /\ timer[1].left = 0
  /\ debouncedValue' = IF phase = "unmounted" THEN debouncedValue ELSE timer[1].value
  /\ timer' = Tail(timer)
  /\ phase' = IF phase = "unmounted" THEN phase
              ELSE IF phaseAfter(debouncedValue' # debouncedValue, out, cache, cache) = "render"
              THEN "timeout" ELSE "idle"
  /\ UNCHANGED <<searchQuery, page, accumulatedMovies, cache, lastValue, out, flushed, events>>

\* the screen unmounts: the cleanup of the useDebounce effect runs
Unmount ==
  /\ phase = "idle"
  /\ events < MaxEvents
  /\ timer' = clearTimeout(timer)
  /\ phase' = "unmounted"
  /\ events' = events + 1
  /\ UNCHANGED <<searchQuery, page, accumulatedMovies, debouncedValue, cache,
                 lastValue, out, flushed>>

(***************************************************************************)
(* The movie API answers a request in flight.  The cache belongs to the    *)
(* store, which outlives the screen: a response that arrives after the     *)
(* unmount is stored as any other, and nothing renders.                    *)
(***************************************************************************)
\* the data objects the hooks and the last render hold
heldData(l, o) ==
  {l[h][1].data : h \in {x \in Endpoints : l[x] # None}}
    \cup (IF o.mounted THEN {o.data} ELSE {})

\* the gen of a new data object of key k: the least that tells it from
\* every object still held
newGen(k, response, l, o) ==
  CHOOSE n \in 0..(Cardinality(Endpoints) + 1) :
    /\ Some([key |-> k, content |-> response, gen |-> n]) \notin heldData(l, o)
    /\ \A m \in 0..(n - 1) :
         Some([key |-> k, content |-> response, gen |-> m]) \in heldData(l, o)

\* the entry after a success: data equal to the data it holds stays the
\* object it is (structural sharing), other data is a new object
fulfilledEntry(k, entry, response, l, o) ==
  [status |-> "fulfilled", data |-> Some(response), error |-> None,
   gen    |-> IF entry.data = Some(response) THEN entry.gen
              ELSE newGen(k, response, l, o)]

Fulfil(k, response) ==
  /\ phase \in {"idle", "unmounted"}
  /\ cache[k].status = "pending"
  /\ cache' = [cache EXCEPT ![k] = fulfilledEntry(k, @, response, lastValue, out)]
  /\ phase' = IF phase = "unmounted" THEN phase
              ELSE phaseAfter(FALSE, out, cache, cache')
  /\ UNCHANGED <<searchQuery, page, accumulatedMovies, debouncedValue, timer,
                 lastValue, out, flushed, events>>

Reject(k, err) ==
  /\ phase \in {"idle", "unmounted"}
  /\ cache[k].status = "pending"
  /\ cache' = [cache EXCEPT ![k] = [@ EXCEPT !.status = "rejected", !.error = Some(err)]]
  /\ phase' = IF phase = "unmounted" THEN phase
              ELSE phaseAfter(FALSE, out, cache, cache')
  /\ UNCHANGED <<searchQuery, page, accumulatedMovies, debouncedValue, timer,
                 lastValue, out, flushed, events>>

\* a request in flight is answered with some page
Fulfilled == \E k \in DOMAIN cache : \E response \in UpstreamResponses : Fulfil(k, response)

\* a request in flight fails
Rejected == \E k \in DOMAIN cache : \E err \in UpstreamErrors : Reject(k, err)

(***************************************************************************)
(* The cache drops what nobody uses.  A query hook subscribes to the entry *)
(* of its argument while it is mounted and not skipped; an entry without   *)
(* subscriber for keepUnusedDataFor (the default of createApi, 60 s) is    *)
(* removed, whatever its status and whatever timeout useDebounce has       *)
(* pending, and the response of a request whose entry is gone is dropped.  *)
(* How long ago the last subscription ended is not part of the state: the  *)
(* removal can come at any moment at which a timeout callback can run.     *)
(* When it is due together with the debounce timeout it can run before     *)
(* that callback, or after the render the callback makes and before the    *)
(* passive effects of that render, while the subscriptions are still those *)
(* of the render before.                                                   *)
(***************************************************************************)
\* the keys some query hook is subscribed to
subscriptions(o, ph) ==
  IF ph = "unmounted" \/ ~o.mounted THEN {} ELSE {o.args[o.apiMode]}

\* removeQueryResult of the entry of key k
RemoveUnused(k) ==
  /\ phase \in {"idle", "effects", "stale", "unmounted"}
  /\ events < MaxEvents
  /\ k \notin subscriptions(flushed, phase)
  /\ cache' = [x \in DOMAIN cache \ {k} |-> cache[x]]
  /\ events' = events + 1
  /\ phase' = IF phase = "effects" /\ phaseAfter(FALSE, out, cache, cache') = "render"
              THEN "stale" ELSE phase
  /\ UNCHANGED <<searchQuery, page, accumulatedMovies, debouncedValue, timer,
                 lastValue, out, flushed>>

\* an entry nobody has used for keepUnusedDataFor is removed
Removed == \E k \in DOMAIN cache : RemoveUnused(k)

Next ==
  \/ SetSearchQuery
  \/ ClearSearch
  \/ LoadMore
  \/ Refresh
  \/ Tick
  \/ TimerFire
  \/ Unmount
  \/ Fulfilled
  \/ Rejected
  \/ Removed
  \/ Commit
  \/ TimeoutRender
  \/ PassiveEffects

Spec == Init /\ [][Next]_vars

\* the callbacks of a session followed to its end
LiveEvents == 2

\* a session of at most LiveEvents callbacks
LiveNext ==
  \/ events < LiveEvents /\ SetSearchQuery
  \/ events < LiveEvents /\ ClearSearch
  \/ events < LiveEvents /\ LoadMore
  \/ events < LiveEvents /\ Refresh
  \/ Tick
  \/ TimerFire
  \/ events < LiveEvents /\ Unmount
  \/ Fulfilled
  \/ Rejected
  \/ events < LiveEvents /\ Removed
  \/ Commit
  \/ TimeoutRender
  \/ PassiveEffects

\* the runtime lets time pass while a timeout is pending, runs a timeout
\* that is due, makes a render that is scheduled and runs the passive
\* effects that are pending: weak fairness of Tick, of TimerFire and of the
\* render steps (Commit, TimeoutRender, PassiveEffects), the last two with
\* their enabling conditions written out
\* (TimerFire is enabled iff a timeout is due while the screen is idle or
\* unmounted, a render step iff the phase is render, timeout or effects)
LiveSpec ==
  /\ Init
  /\ [][LiveNext]_vars
  /\ WF_vars(Tick)
  /\ \/ []<>(~(phase \in {"idle", "unmounted"} /\ timer # None /\ timer[1].left = 0))
     \/ []<><<TimerFire>>_vars
  /\ \/ []<>(phase \notin {"render", "timeout", "effects", "stale"})
     \/ []<><<Commit \/ TimeoutRender \/ PassiveEffects>>_vars

(***************************************************************************)
(* Sessions in which the texts typed carry white space around and between  *)
(* their words, or the same filter with different words.                   *)
(***************************************************************************)
\* texts with surrounding and inner white space, and with a rating filter
\* next to different words
WordQueries ==
  {" up ", "the  matrix", "\tup  it\n", "\fup", "7+", "up 7+", "it  7+ "}

\* the callbacks of such a session
WordsEvents == 2

WordsNext ==
  \/ events < WordsEvents /\ \E q \in WordQueries : HandleSetSearchQuery(q)
  \/ events < WordsEvents /\ LoadMore
  \/ Tick
  \/ TimerFire
  \/ Fulfilled
  \/ Rejected
  \/ events < WordsEvents /\ Removed
  \/ Commit
  \/ TimeoutRender
  \/ PassiveEffects

WordsSpec == Init /\ [][WordsNext]_vars

(***************************************************************************)
(* The query parser and the parameter mapper on their own: a text is       *)
(* parsed (ParseQuery) and what the parser returned is mapped to discover  *)
(* parameters (MapParams); the mapper is exported, so it is also given     *)
(* parsed queries a caller builds.  The text is searchQuery, the results   *)
(* are fields of out; the rest of the hook state stays as constructed.     *)
(***************************************************************************)
\* all orders of three tokens with the separator sep between them
Orders(sep, a, b, c) ==
  {a \o sep \o b \o sep \o c, a \o sep \o c \o sep \o b,
   b \o sep \o a \o sep \o c, b \o sep \o c \o sep \o a,
   c \o sep \o a \o sep \o b, c \o sep \o b \o sep \o a}

\* blank texts
BlankTexts == {"", " ", "   ", " \t", "\n"}

\* texts without a year, a rating, a runtime or a genre
PlainTexts == {"up", "it", "the matrix", "7", "x_y", "best  movies ", "rating", "min 90"}

\* texts with one or two filters
FilterTexts ==
  {"7+", ">90min", "longer than 120", "runtime>90", "rating>=8.5", "funny",
   "comedy 1999", "1999 2020", "heist =8 rating", "up 2020", "war", "scary >100 min"}

\* a four-digit number and what can stand next to it
YearTexts ==
  {b \o y \o a : b \in {"", " ", "a", "_", "-", "1", "("},
                 y \in {"1900", "2020", "2099", "1899", "2100"},
                 a \in {"", " ", "s", "_", "-", "0", ")"}}

\* one primary genre name, one year and one rating>N, in any order: the
\* years, the numbers N (the last three have the digits of a year before
\* or after the point) and the white space between the tokens
YearNumbers == << 2020, 1999, 2099 >>
RatingNumbers == << "7", "7.5", "10", "7.2020", "2020.5", "1999" >>
Separators == {" ", "  ", "\t"}
GenreYearRatingTexts ==
  UNION {Orders(" ", genreWords[g], NatToStr(YearNumbers[y]), "rating>" \o RatingNumbers[r]) :
           g \in 1..Len(genreWords), y \in 1..Len(YearNumbers),
           r \in 1..Len(RatingNumbers)}
  \cup UNION {Orders(sep, genreWords[g], "2020", "rating>7") :
                g \in 1..Len(genreWords), sep \in Separators}

\* one text for each rating pattern, in the order of ratingPatterns, and the
\* number it carries
RatingForms == << "rating>7", ">6 rating", "8+", ">9" >>
RatingFormValues == << 7, 6, 8, 9 >>

\* two rating forms in either order, with a word between them
RatingPairTexts ==
  {"rating>7 8+", "8+ rating>7"}
  \cup {RatingForms[a] \o " x " \o RatingForms[b] : a, b \in 1..Len(RatingForms)}

\* one text for each runtime pattern, in the order of runtimePatterns, and
\* the number it carries
RuntimeForms == << "runtime>90", "longer than 120", ">100 min" >>
RuntimeFormValues == << 90, 120, 100 >>

\* a runtime form alone and after a rating token
RuntimeTexts ==
  {RuntimeForms[k] : k \in 1..Len(RuntimeForms)}
  \cup {"rating>7 " \o RuntimeForms[k] : k \in 1..Len(RuntimeForms)}

\* ratings at and beyond the ends of the scale
RatingRangeTexts == {"rating>0", "rating>10", "rating>10.5", "rating>50", ">120 min"}

\* texts with two years
TwoYearTexts == {"1999 2020", "2001 odyssey 1968", "2020 up 2020"}

\* texts with genre names and keywords and no other filter
GenreTexts ==
  {"suspense", "warm", "funny war", "war funny", "Zombie WAR", "historical era",
   "TV Movie", "Science Fiction", "opera", "husband", "zombie", "horror zombie",
   "actions", "Action hero", "funny comedy", "sci-fi classics", "cowboy  western town",
   "family-friendly drama", "science fiction war", "the crime of war"}

\* texts with the white space beyond space, tab and the line ends: form
\* feed, vertical tab, no-break space, ogham space mark and byte order mark
OtherSpaceTexts ==
  {" ", "﻿up", "up﻿ ", "rating >﻿7 up  it",
   "\f", " ", "\fup\f", " up ", "rating\f>7", "rating >7.5 x",
   "longerthan 120", "the\f matrix"}

\* texts with cased letters beyond A..Z
LatinTexts == {"ΑBC", "ΟΔΟΣ War", "ΣΑΣ. 1999", "ǅ Action", "Ᲊ Action", "ꟌꟚ War", "É", "CAFÉ War", "À LA Action", "café 1999"}

\* numbers with more digits than a double holds, and beyond every double
LongNumberTexts ==
  {"longer than 12345678901234567", "rating>7.00000000000000001",
   "rating>0.1234567890123456789", "rating>7 runtime>3000000000",
   "rating>9007199254740993", "longer than 1" \o Zeros(309),
   "rating>0." \o Zeros(330) \o "1"}

ParserTexts == BlankTexts \cup PlainTexts \cup FilterTexts \cup YearTexts
               \cup GenreYearRatingTexts \cup RatingPairTexts \cup RuntimeTexts
               \cup RatingRangeTexts \cup TwoYearTexts \cup GenreTexts
               \cup OtherSpaceTexts \cup LatinTexts \cup LongNumberTexts

\* parsed queries as a caller of the mapper can build them
MapperInputs ==
  {[useDiscover |-> TRUE, textQuery |-> None,
    year |-> y, minRating |-> r, maxRating |-> mr, genres |-> g,
    minRuntime |-> t, maxRuntime |-> mt] :
     y  \in {None, Some(Zero), Some(Whole(2020))},
     r  \in {None, Some(Zero), Some(Whole(7))},
     mr \in {None, Some(Whole(9))},
     g  \in {None, Some(<<>>), Some(<<"28">>), Some(<<"28", "18">>)},
     t  \in {None, Some(Zero), Some(Whole(120))},
     mt \in {None, Some(Whole(90))}}

ParserInit ==
  /\ \/ /\ searchQuery \in ParserTexts
        /\ out = NotRendered
        /\ phase = "parse"
     \/ /\ searchQuery = ""
        /\ out \in {[mounted |-> FALSE, parsedQuery |-> p] : p \in MapperInputs}
        /\ phase = "given"
  /\ page = 1
  /\ accumulatedMovies = <<>>
  /\ debouncedValue = ""
  /\ timer = None
  /\ cache = [k \in {} |-> Uninitialized]
  /\ lastValue = [h \in Endpoints |-> None]
  /\ flushed = NotRendered
  /\ events = 0

\* parseSearchQuery(text)
ParseQuery ==
  /\ phase = "parse"
  /\ out' = [mounted |-> FALSE, parsedQuery |-> parseSearchQuery(searchQuery)]
  /\ phase' = "parsed"
  /\ UNCHANGED <<searchQuery, page, accumulatedMovies, debouncedValue, timer, cache,
                 lastValue, flushed, events>>

\* toDiscoverParams(parsed)
MapParams ==
  /\ phase \in {"parsed", "given"}
  /\ out' = [mounted |-> FALSE, parsedQuery |-> out.parsedQuery,
             discoverParams |-> toDiscoverParams(out.parsedQuery)]
  /\ phase' = "mapped"
  /\ UNCHANGED <<searchQuery, page, accumulatedMovies, debouncedValue, timer, cache,
                 lastValue, flushed, events>>

ParserNext ==
  \/ ParseQuery
  \/ MapParams

ParserSpec == ParserInit /\ [][ParserNext]_vars

(***************************************************************************)
(* Properties.                                                             *)
(***************************************************************************)
\* a text of white space only
IsBlank(q) == \A i \in 1..Len(q) : Ch(q, i) \in WhiteSpace

\* what parseSearchQuery returns for each text the search box can hold
parsedOf == [q \in Queries |-> parseSearchQuery(q)]

\* C1: in every committed render the mode is determined by the debounced
\* query alone: popular iff it is blank, discover iff it is not blank and
\* parseSearchQuery sets useDiscover for it, search iff it is not blank and
\* the flag is false; the debounced query of a render at rest is the
\* debounced value, whatever the raw query is.
C1_ModeFromDebouncedQuery ==
  out.mounted =>
    /\ phase = "idle" => out.debouncedQuery = debouncedValue
    /\ out.apiMode = "popular" <=> IsBlank(out.debouncedQuery)
    /\ out.apiMode = "discover" <=>
         ~IsBlank(out.debouncedQuery) /\ parsedOf[out.debouncedQuery].useDiscover
    /\ out.apiMode = "search" <=>
         ~IsBlank(out.debouncedQuery) /\ ~parsedOf[out.debouncedQuery].useDiscover

\* C1 witness: the raw query is a discover query while the debounced query,
\* and with it the mode, is still a search
C1_RawQueryAhead ==
  /\ out.mounted
  /\ phase = "idle"
  /\ searchQuery = "7+"
  /\ out.debouncedQuery = "up"
  /\ out.apiMode = "search"

\* no id occurs twice in s
NoDup(s) == \A i, j \in 1..Len(s) : i # j => s[i] # s[j]

\* C2: the accumulated result set never holds two entries with the same
\* id, whatever the upstream returns.
C2_NoDuplicateIds ==
  /\ NoDup(accumulatedMovies)
  /\ out.mounted => NoDup(out.movies)

RECURSIVE RefKeep(_, _)
\* the items whose id is not in ids, in their order
RefKeep(items, ids) ==
  IF Len(items) = 0 THEN <<>>
  ELSE (IF Head(items) \in ids THEN <<>> ELSE <<Head(items)>>) \o RefKeep(Tail(items), ids)

\* the reference operator: page 1 replaces, a later page appends what is new
RefApply(acc, items, pageNumber) ==
  IF pageNumber = 1 THEN items
  ELSE acc \o RefKeep(items, {acc[i] : i \in 1..Len(acc)})

\* the step runs the passive effects of a render (Commit, PassiveEffects):
\* flushed is the render before it and flushed', which is out', the render
\* they belong to
EffectsRun == flushed' # flushed

\* the effects apply the page the render returned (the accumulate effect
\* runs on data, the reset effect does not run)
AppliesPage ==
  /\ EffectsRun
  /\ flushed.mounted
  /\ out'.debouncedQuery = flushed.debouncedQuery
  /\ out'.apiMode = flushed.apiMode
  /\ out'.data # None
  /\ out'.data # flushed.data \/ out'.currentPage # flushed.currentPage

\* C3: applying a result page to the accumulator gives what the reference
\* operator gives: on page 1 exactly the items of the page, otherwise the
\* accumulated sequence, as an unchanged prefix, followed by the items of
\* the page whose id was not present, in page order.
C3_AccumulateIsReference ==
  [][AppliesPage =>
       /\ accumulatedMovies' = RefApply(accumulatedMovies,
                                        out'.data[1].content.results, out'.currentPage)
       /\ out'.currentPage # 1 =>
            SubSeq(accumulatedMovies', 1, Len(accumulatedMovies)) = accumulatedMovies]_vars

\* C3 witness: page 1 [1,2] and then page 2 [2,3] have been applied
C3_SecondPageAppended ==
  /\ phase = "idle"
  /\ out.currentPage = 2
  /\ out.data # None
  /\ out.data[1].content.results = <<2, 3>>
  /\ accumulatedMovies = <<1, 2, 3>>

\* the requests a step starts
Started == {k \in DOMAIN cache' : cache'[k].status = "pending"
                                   /\ Entry(cache, k).status # "pending"}

\* C4: when the debounced query or the mode changes, the page number is 1
\* and the accumulated set is empty before a request is issued: the
\* effects of the render that sees the change issue no request for another
\* page than 1, and leave page 1 and nothing accumulated.
C4_ResetBeforeFetch ==
  [][(/\ EffectsRun
      /\ flushed.mounted
      /\ out'.debouncedQuery # flushed.debouncedQuery \/ out'.apiMode # flushed.apiMode)
     => /\ \A k \in Started :
             k = queryArg(out'.apiMode, out'.parsedQuery, out'.debouncedQuery, 1)
        /\ page' = 1
        /\ accumulatedMovies' = <<>>]_vars

\* C5: what the effects of a render merge into the accumulated set is the
\* response to a request of the current mode and debounced query.
C5_NoStaleMerge ==
  [][(/\ EffectsRun
      /\ accumulatedMovies' # accumulatedMovies
      /\ accumulatedMovies' # <<>>)
     => /\ out'.data # None
        /\ \E p \in 1..MaxPages :
             out'.data[1].key =
               queryArg(out'.apiMode, out'.parsedQuery, out'.debouncedQuery, p)]_vars

\* the endpoint a cache key belongs to
KeyEndpoint(k) ==
  IF SubSeq(k, 1, 3) = "get" THEN "popular"
  ELSE IF SubSeq(k, 1, 3) = "sea" THEN "search"
  ELSE "discover"

\* C6: in every render exactly one query hook is not skipped, the one of
\* the mode, and every request a step starts is a request of that endpoint.
C6_OnlyActiveRequest ==
  [][/\ {h \in Endpoints : ~skip(h, out'.apiMode)} = {out'.apiMode}
     /\ \A k \in Started : KeyEndpoint(k) = out'.apiMode]_vars

\* C6 witness: in discover mode the discover request is in flight, the
\* popular request was made while the mode was popular, and the request of
\* the search hook for this query has never been made
C6_DiscoverAlone ==
  /\ phase = "idle"
  /\ out.apiMode = "discover"
  /\ Entry(cache, out.args["discover"]).status = "pending"
  /\ out.args["popular"] \in DOMAIN cache
  /\ out.args["search"] \notin DOMAIN cache

\* C7: loadMore changes nothing when isLoading is true or hasMore is false;
\* otherwise it adds 1 to the page number; it changes nothing else.
C7_LoadMoreFrame ==
  [][LoadMore =>
       /\ page' = IF out.isLoading \/ ~out.hasMore THEN page ELSE page + 1
       /\ UNCHANGED <<searchQuery, accumulatedMovies, debouncedValue, timer, cache,
                      lastValue, out, flushed>>]_vars

\* C7 witness: loadMore has advanced the page of a loaded list, the render
\* of the new page is still to come
C7_PageAdvanced ==
  /\ phase = "render"
  /\ out.mounted
  /\ out.hasMore
  /\ page = out.currentPage + 1
  /\ accumulatedMovies = out.movies
  /\ accumulatedMovies # <<>>

\* C8: hasMore is currentPage < totalPages, where totalPages is the
\* total_pages of the data of the active mode and 0 without data; it is
\* false as long as no response has arrived (neither the cache nor a query
\* hook holds data).
C8_HasMore ==
  out.mounted =>
    /\ out.totalPages = IF out.data = None THEN 0 ELSE out.data[1].content.total_pages
    /\ out.hasMore <=> out.currentPage < out.totalPages
    /\ (/\ \A k \in DOMAIN cache : cache[k].data = None
        /\ \A h \in Endpoints : lastValue[h] = None \/ lastValue[h][1].data = None)
         => ~out.hasMore

\* C8 witness: on page 2 of 3 there is more
C8_MoreOnSecondPage ==
  /\ phase = "idle"
  /\ out.currentPage = 2
  /\ out.totalPages = 3
  /\ out.hasMore

\* C9: refresh sets the page number to 1, empties the accumulated set and
\* has the request of the active mode for that page fetched again; the raw
\* query, the debounced query and the mode stay as they are.
C9_RefreshRefetches ==
  [][Refresh =>
       /\ page' = 1
       /\ accumulatedMovies' = <<>>
       /\ Entry(cache', queryArg(out.apiMode, out.parsedQuery, out.debouncedQuery, 1)).status
            = "pending"
       /\ UNCHANGED <<searchQuery, debouncedValue, out>>]_vars

\* C10: the debounced value changes only when the timer fires, which is
\* DelayTicks after the last change of the input, and then to the input
\* value of that moment; a change of the input leaves the debounced value
\* alone and the effects of its render put the timer back to the full
\* delay; the timer is gone once it has fired.
C10_Debounce ==
  [][/\ debouncedValue' # debouncedValue =>
          /\ timer # None
          /\ timer[1].left = 0
          /\ debouncedValue' = searchQuery
     /\ TimerFire => debouncedValue' = searchQuery /\ timer' = None
     /\ searchQuery' # searchQuery => debouncedValue' = debouncedValue
     /\ (EffectsRun /\ flushed.mounted /\ flushed.searchQuery # out'.searchQuery) =>
          timer' = Some([left |-> DelayTicks, value |-> searchQuery])]_vars

\* C10 witness: two changes of the input, the second before the first was
\* propagated, and then the one propagation, of the second value
C10_BurstPropagatedOnce ==
  /\ events = 2
  /\ searchQuery = "it"
  /\ debouncedValue = "it"
  /\ timer = None
  /\ "searchMovies(query:it,page:1)" \in DOMAIN cache
  /\ "searchMovies(query:up,page:1)" \notin DOMAIN cache
  /\ \A k \in DOMAIN cache : KeyEndpoint(k) # "discover"

\* C11: useDebounce has at most one timeout pending: the effects of the
\* render of a new input value leave exactly one, set for the new value at the full delay
\* (the one set for the previous value is cancelled); the debounced value
\* only ever changes to the current input value, never to a superseded one;
\* after the unmount no timeout is pending and neither the debounced value
\* nor the timer changes again.
C11_SingleTimer ==
  /\ [](Len(timer) <= 1 /\ (phase = "unmounted" => timer = None))
  /\ [][/\ (EffectsRun /\ flushed.mounted /\ flushed.searchQuery # out'.searchQuery) =>
             timer' = <<[left |-> DelayTicks, value |-> searchQuery]>>
        /\ debouncedValue' # debouncedValue =>
             phase = "idle" /\ debouncedValue' = searchQuery
        /\ phase = "unmounted" =>
             debouncedValue' = debouncedValue /\ timer' = timer]_vars

\* C11 witness: the screen was unmounted while the propagation of a new
\* input value was pending; the timeout is gone and the debounced value is
\* still the old one
C11_CancelledByUnmount ==
  /\ phase = "unmounted"
  /\ searchQuery = "it"
  /\ debouncedValue = "up"
  /\ timer = None

\* the parsed query carries a year, a rating, a runtime or a genre filter
HasFilter(p) ==
  p.year # None \/ p.minRating # None \/ p.minRuntime # None \/ p.genres # None

\* C12: what parseSearchQuery returns has useDiscover true iff year,
\* minRating, minRuntime or genres is set; for a blank text it is the flag
\* false and nothing else; for a text without any filter it is the flag
\* false and the text query and nothing else.
C12_UseDiscoverIffFilter ==
  phase = "parsed" =>
    /\ DOMAIN out.parsedQuery = DOMAIN EmptyResult
    /\ out.parsedQuery.useDiscover <=> HasFilter(out.parsedQuery)
    /\ IsBlank(searchQuery) =>
         ~out.parsedQuery.useDiscover /\ ~HasFilter(out.parsedQuery)
         /\ out.parsedQuery.textQuery = None
    /\ searchQuery \in PlainTexts =>
         ~out.parsedQuery.useDiscover /\ ~HasFilter(out.parsedQuery)
         /\ out.parsedQuery.textQuery # None

\* C12 witness: a text with a runtime filter only has been parsed
C12_RuntimeOnly ==
  /\ phase = "parsed"
  /\ searchQuery = "longer than 120"
  /\ out.parsedQuery.useDiscover
  /\ out.parsedQuery.minRuntime = Some(Whole(120))
  /\ out.parsedQuery.year = None
  /\ out.parsedQuery.minRating = None
  /\ out.parsedQuery.genres = None

\* four digits that read 1900..2099 stand at i
YearDigitsAt(t, i) ==
  /\ i + 3 <= Len(t)
  /\ SubSeq(t, i, i + 1) \in {"19", "20"}
  /\ Ch(t, i + 2) \in Digit
  /\ Ch(t, i + 3) \in Digit

\* the text has a character of S at i
NeighbourIn(t, i, S) == i >= 1 /\ i <= Len(t) /\ Ch(t, i) \in S

\* where such digits stand with no digit next to them
IsolatedYears(t) ==
  {i \in 1..Len(t) : /\ YearDigitsAt(t, i)
                     /\ ~NeighbourIn(t, i - 1, Digit)
                     /\ ~NeighbourIn(t, i + 4, Digit)}

\* where such digits stand with no letter, digit or underscore next to them
DelimitedYears(t) ==
  {i \in 1..Len(t) : /\ YearDigitsAt(t, i)
                     /\ ~NeighbourIn(t, i - 1, WordChar)
                     /\ ~NeighbourIn(t, i + 4, WordChar)}

\* C13 as stated: a text with one number 1900..2099 of four digits that has
\* no digit next to it, whatever else surrounds it, is parsed to that year
\* with useDiscover true.
C13_YearAmongAnyNeighbours ==
  phase = "parsed" =>
    \A i \in IsolatedYears(searchQuery) :
      IsolatedYears(searchQuery) = {i} =>
        /\ out.parsedQuery.year # None
        /\ NumberToString(out.parsedQuery.year[1]) = SubSeq(searchQuery, i, i + 3)
        /\ out.parsedQuery.useDiscover

\* C13 amended: the year is the first number 1900..2099 of four digits that
\* has no letter, digit or underscore next to it, and then useDiscover is
\* true; without such a number no year is set.
C13_YearBetweenWordBoundaries ==
  phase = "parsed" =>
    IF DelimitedYears(searchQuery) = {}
    THEN out.parsedQuery.year = None
    ELSE \E i \in DelimitedYears(searchQuery) :
           /\ \A k \in DelimitedYears(searchQuery) : i <= k
           /\ out.parsedQuery.year # None
           /\ NumberToString(out.parsedQuery.year[1]) = SubSeq(searchQuery, i, i + 3)
           /\ out.parsedQuery.useDiscover

\* C13 witness: a year between brackets has been parsed
C13_YearInBrackets ==
  /\ phase = "parsed"
  /\ searchQuery = "(2020)"
  /\ out.parsedQuery.year = Some(Whole(2020))
  /\ out.parsedQuery.useDiscover

\* the genre id, as text, each primary genre name stands for
PrimaryGenreIds ==
  << "28", "12", "16", "35", "80", "99", "18", "10751", "14", "36", "27",
     "10402", "9648", "10749", "878", "878", "53", "10752", "37" >>

\* the number each N of RatingNumbers stands for
RatingOf ==
  << Whole(7), [whole |-> "7", frac |-> "5"], Whole(10),
     [whole |-> "7", frac |-> "202"], [whole |-> "2020", frac |-> "5"],
     Whole(1999) >>

\* the parsed query has exactly the year y, the rating r and the genre ids
\* given, the flag true, no text query and no runtime
ExactlyYearRatingGenres(p, y, r, ids) ==
  /\ p.year = Some(Whole(YearNumbers[y]))
  /\ p.minRating = Some(RatingOf[r])
  /\ p.genres = Some(ids)
  /\ p.useDiscover
  /\ p.textQuery = None
  /\ p.minRuntime = None

\* C14 as stated: a text made of one primary genre name, one year and one
\* rating>N, in any order, is parsed to exactly that year, that rating and
\* the one id of that genre, with useDiscover true, no text query and no
\* runtime.
C14_GenreYearRatingConsumed ==
  phase = "parsed" =>
    \A g \in 1..Len(genreWords) : \A y \in 1..Len(YearNumbers) :
      \A r \in 1..Len(RatingNumbers) : \A sep \in Separators :
        searchQuery \in Orders(sep, genreWords[g], NatToStr(YearNumbers[y]),
                               "rating>" \o RatingNumbers[r]) =>
          ExactlyYearRatingGenres(out.parsedQuery, y, r, <<PrimaryGenreIds[g]>>)

\* the genre ids a primary genre name is parsed to: its own, and for "war"
\* the id of History, which lists war as a keyword, before it
GenreIdsOf(g) ==
  IF genreWords[g] = "war" THEN <<"36", "10752">> ELSE <<PrimaryGenreIds[g]>>

\* the digits d are a year as the year step reads it: four digits, the
\* first two 19 or 20
YearDigits(d) == Len(d) = 4 /\ SubSeq(d, 1, 2) \in {"19", "20"}

\* the digits of the number n before its point, or those after it, are a
\* year
CarriesYear(n) ==
  \/ YearDigits(SubSeq(n, 1, SpanOf(n, 1, Digit) - 1))
  \/ YearDigits(SubSeq(n, SpanOf(n, 1, Digit) + 1, Len(n)))

\* C14 amended: such a text, when neither the digits of N before the point
\* nor those after it are a year, is parsed to exactly that year, that
\* rating and the ids of every genre whose name or keyword the genre name
\* contains (one id for every primary genre name but "war", two for "war"),
\* with useDiscover true, no text query and no runtime.
C14_GenreYearRatingIds ==
  phase = "parsed" =>
    \A g \in 1..Len(genreWords) : \A y \in 1..Len(YearNumbers) :
      \A r \in 1..Len(RatingNumbers) : \A sep \in Separators :
        (/\ ~CarriesYear(RatingNumbers[r])
         /\ searchQuery \in Orders(sep, genreWords[g], NatToStr(YearNumbers[y]),
                                  "rating>" \o RatingNumbers[r])) =>
          ExactlyYearRatingGenres(out.parsedQuery, y, r, GenreIdsOf(g))

\* C14 witness: the example of the module documentation has been parsed
C14_ActionExample ==
  /\ phase = "parsed"
  /\ searchQuery = "action 2020 rating>7"
  /\ out.parsedQuery.year = Some(Whole(2020))
  /\ out.parsedQuery.minRating = Some(Whole(7))
  /\ out.parsedQuery.genres = Some(<<"28">>)
  /\ out.parsedQuery.useDiscover
  /\ out.parsedQuery.textQuery = None

\* an optional field of a parsed query; the parser's results have no
\* maxRating and no maxRuntime
FieldOf(p, name) == IF name \in DOMAIN p THEN p[name] ELSE None

RECURSIVE CommaJoined(_, _)
\* the first n ids, separated by commas
CommaJoined(ids, n) ==
  IF n = 0 THEN ""
  ELSE IF n = 1 THEN ids[1]
  ELSE CommaJoined(ids, n - 1) \o "," \o ids[n]

\* what the mapping does with the fields it copies as they are, with the
\* vote count and with the sort order
CopiesRatingsAndRuntimes(p, d) ==
  /\ d.vote_average_gte = p.minRating
  /\ d.vote_average_lte = FieldOf(p, "maxRating")
  /\ d.with_runtime_gte = p.minRuntime
  /\ d.with_runtime_lte = FieldOf(p, "maxRuntime")
  /\ d.vote_count_gte = IF p.minRating # None THEN Some(100) ELSE None
  /\ d.sort_by = "popularity.desc"

\* C15 as stated: every output field of toDiscoverParams is present exactly
\* when the field of the parsed query it comes from is present, with the
\* same value (genres joined by commas); vote_count.gte is 100 iff minRating
\* is present; sort_by is always popularity.desc.
C15_FieldByField ==
  phase = "mapped" =>
    /\ CopiesRatingsAndRuntimes(out.parsedQuery, out.discoverParams)
    /\ out.discoverParams.primary_release_year = out.parsedQuery.year
    /\ out.discoverParams.with_genres =
         IF out.parsedQuery.genres = None THEN None
         ELSE Some(CommaJoined(out.parsedQuery.genres[1], Len(out.parsedQuery.genres[1])))

\* C15 amended: as stated, except that primary_release_year is present
\* iff year is present and not 0, and with_genres iff genres is present
\* and not empty.
C15_FieldByFieldTruthy ==
  phase = "mapped" =>
    /\ CopiesRatingsAndRuntimes(out.parsedQuery, out.discoverParams)
    /\ out.discoverParams.primary_release_year =
         IF out.parsedQuery.year = Some(Zero) THEN None ELSE out.parsedQuery.year
    /\ out.discoverParams.with_genres =
         IF out.parsedQuery.genres \in {None, Some(<<>>)} THEN None
         ELSE Some(CommaJoined(out.parsedQuery.genres[1], Len(out.parsedQuery.genres[1])))

\* C15 witness: a parsed query with minRating 7 and two genres has been
\* mapped
C15_RatingSeven ==
  /\ phase = "mapped"
  /\ out.parsedQuery.minRating = Some(Whole(7))
  /\ out.parsedQuery.genres = Some(<<"28", "18">>)
  /\ out.parsedQuery.year = None
  /\ out.discoverParams.vote_average_gte = Some(Whole(7))
  /\ out.discoverParams.vote_count_gte = Some(100)
  /\ out.discoverParams.with_genres = Some("28,18")
  /\ out.discoverParams.primary_release_year = None

\* the render that is due was caused by a failed request of the active
\* mode: the hook state is the one of the last render and the request the
\* mode selects has failed
RejectionRender ==
  /\ phase = "render"
  /\ out.mounted
  /\ out.searchQuery = searchQuery
  /\ out.currentPage = page
  /\ out.debouncedQuery = debouncedValue
  /\ out.movies = accumulatedMovies
  /\ Entry(cache, out.args[out.apiMode]).status = "rejected"

\* C16: neither the failure of a request nor the render that shows it
\* changes the accumulated list or the page number, and that render is the
\* last one the failure causes.
C16_FailureLeavesList ==
  [][/\ Rejected => accumulatedMovies' = accumulatedMovies /\ page' = page
     /\ (RejectionRender /\ Commit) =>
          /\ accumulatedMovies' = accumulatedMovies
          /\ page' = page
          /\ out'.error = Some("FETCH_ERROR")
          /\ phase' = "idle"]_vars

\* C16 witness: the request of page 2 has failed and the failure has been
\* rendered; the list still holds page 1
C16_SecondPageFailed ==
  /\ phase = "idle"
  /\ out.error = Some("FETCH_ERROR")
  /\ page = 2
  /\ accumulatedMovies = <<1, 2>>
  /\ Entry(cache, out.args[out.apiMode]).status = "rejected"

\* C17: at rest the error the hook exposes is the error of the request the
\* active mode is subscribed to, as the cache holds it; a request that has
\* failed is issued again only by refresh or by the effects of a render in
\* which the hook's request has become another one (the page, the debounced
\* query or the mode has changed), never by itself.
C17_ErrorOfActiveRequest ==
  /\ [](phase = "idle" => out.error = Entry(cache, out.args[out.apiMode]).error)
  /\ [][\A k \in DOMAIN cache :
          (cache[k].status = "rejected" /\ Entry(cache', k).status = "pending") =>
            \/ Refresh
            \/ /\ Commit \/ PassiveEffects
               /\ out'.args[out'.apiMode] = k
               /\ \/ ~flushed.mounted
                  \/ flushed.apiMode # out'.apiMode
                  \/ flushed.args[flushed.apiMode] # k]_vars

\* C17 witness: a search request has failed and the hook, back in popular
\* mode, exposes no error
C17_InactiveErrorHidden ==
  /\ phase = "idle"
  /\ out.apiMode = "popular"
  /\ out.error = None
  /\ out.data # None
  /\ \E k \in DOMAIN cache : KeyEndpoint(k) = "search" /\ cache[k].error # None

\* C18: clearSearch leaves the raw query empty, the page 1 and the
\* accumulated list empty; in a session in which from some point on the raw
\* query stays empty and the screen stays mounted, from some point on the
\* debounced query is empty and the mode is popular.
C18_ClearReturnsToPopular ==
  /\ [][(searchQuery # "" /\ searchQuery' = "") =>
          page' = 1 /\ accumulatedMovies' = <<>>]_vars
  /\ <>[](searchQuery = "" /\ phase # "unmounted") =>
       <>[](debouncedValue = "" /\ out.mounted /\ out.apiMode = "popular")

\* C18 witness: a search was made, the query was cleared and the hook is
\* back in popular mode with an empty debounced query
C18_BackToPopular ==
  /\ phase = "idle"
  /\ events = 2
  /\ searchQuery = ""
  /\ debouncedValue = ""
  /\ out.apiMode = "popular"
  /\ page = 1
  /\ \E k \in DOMAIN cache : KeyEndpoint(k) = "search"

\* C19: the page number advances only when the request of the active
\* mode for the current page is not in flight.
C19_NoAdvanceWhileInFlight ==
  [][page' = page + 1 =>
       Entry(cache, out.args[out.apiMode]).status # "pending"]_vars

\* a response for some page of the mode and debounced query of the coming
\* render has reported at least p pages
KnownToHavePage(p) ==
  \E q \in 1..MaxPages :
    LET e == Entry(cache, queryArg(out'.apiMode, out'.parsedQuery,
                                   out'.debouncedQuery, q))
    IN  e.data # None /\ e.data[1].total_pages >= p

\* C20: the page number is at least 1, and a request for a page p > 1 of
\* a mode and query is issued only when a response for that mode and query
\* has reported at least p pages.
C20_NoRequestPastLastPage ==
  [][/\ page' >= 1
     /\ \A k \in Started : \A p \in 2..MaxPages :
          k = queryArg(out'.apiMode, out'.parsedQuery, out'.debouncedQuery, p) =>
            KnownToHavePage(p)]_vars


\* C21: the rating patterns are tried in the order rating>N, >N rating, N+,
\* bare >N, whatever the order of the text: of two rating forms with a word
\* between them the one of the earlier pattern sets minRating and is
\* removed, the other one stays in the text query; at most one rating is
\* extracted ("rating>7 8+" gives 7 and leaves "8+").
C21_RatingByPatternOrder ==
  phase = "parsed" =>
    /\ \A a, b \in 1..Len(RatingForms) :
         a < b =>
           /\ searchQuery = RatingForms[a] \o " x " \o RatingForms[b] =>
                /\ out.parsedQuery.minRating = Some(Whole(RatingFormValues[a]))
                /\ out.parsedQuery.textQuery = Some("x " \o RatingForms[b])
                /\ out.parsedQuery.useDiscover
           /\ searchQuery = RatingForms[b] \o " x " \o RatingForms[a] =>
                /\ out.parsedQuery.minRating = Some(Whole(RatingFormValues[a]))
                /\ out.parsedQuery.textQuery = Some(RatingForms[b] \o " x")
                /\ out.parsedQuery.useDiscover
    /\ searchQuery \in {"rating>7 8+", "8+ rating>7"} =>
         /\ out.parsedQuery.minRating = Some(Whole(7))
         /\ out.parsedQuery.textQuery = Some("8+")
         /\ out.parsedQuery.useDiscover

\* C21 witness: the later text position holds the earlier pattern, which
\* has set the rating
C21_LaterTokenWins ==
  /\ phase = "parsed"
  /\ searchQuery = "8+ x rating>7"
  /\ out.parsedQuery.minRating = Some(Whole(7))
  /\ out.parsedQuery.textQuery = Some("8+ x")

\* C22: a text that is one of the runtime forms runtime>N, longer than N,
\* >N min is parsed to minRuntime = N with useDiscover true and the form
\* removed from the text, also when the text has no rating token.
C22_RuntimeExtracted ==
  phase = "parsed" =>
    \A k \in 1..Len(RuntimeForms) :
      searchQuery = RuntimeForms[k] =>
        /\ out.parsedQuery.minRuntime = Some(Whole(RuntimeFormValues[k]))
        /\ out.parsedQuery.useDiscover
        /\ out.parsedQuery.textQuery = None

\* C23: whenever parseSearchQuery sets minRating, the value lies in [0,10].
C23_MinRatingInRange ==
  phase = "parsed" /\ out.parsedQuery.minRating # None =>
    \/ Len(out.parsedQuery.minRating[1].whole) = 1
    \/ out.parsedQuery.minRating[1] = Whole(10)

\* C24: of several years in a text the first is the year and only that
\* occurrence is removed: the later ones stay in the text query.
C24_OnlyFirstYearRemoved ==
  phase = "parsed" =>
    /\ searchQuery = "1999 2020" =>
         out.parsedQuery.year = Some(Whole(1999)) /\ out.parsedQuery.textQuery = Some("2020")
    /\ searchQuery = "2001 odyssey 1968" =>
         out.parsedQuery.year = Some(Whole(2001)) /\ out.parsedQuery.textQuery = Some("odyssey 1968")
    /\ searchQuery = "2020 up 2020" =>
         out.parsedQuery.year = Some(Whole(2020)) /\ out.parsedQuery.textQuery = Some("up 2020")

\* the name or a keyword of the g-th genre of the table occurs in the text,
\* letter case aside
GenreOccurs(g, text) ==
  \/ includes(toLowerCase(text), toLowerCase(GENRE_INFO[g].name))
  \/ \E k \in 1..Len(GENRE_INFO[g].keywords) :
       includes(toLowerCase(text), GENRE_INFO[g].keywords[k])

\* the genre ids of a parsed query, none being the empty list
GenresIn(p) == IF p.genres = None THEN <<>> ELSE p.genres[1]

\* C25: for a text without a year, a rating or a runtime the genres of the
\* parsed query are exactly the ids, as text, of the genres whose name or
\* one of whose keywords occurs in the lower-cased text as a substring,
\* each once, in table order; a keyword of two genres gives both ids
\* ("war": History and War, "suspense": Mystery and Thriller).
C25_GenresOfText ==
  phase = "parsed" =>
    /\ searchQuery \in GenreTexts \cup PlainTexts =>
         LET hits == {g \in 1..Len(GENRE_INFO) : GenreOccurs(g, searchQuery)}
             ids  == GenresIn(out.parsedQuery)
         IN  /\ Len(ids) = Cardinality(hits)
             /\ \A i \in 1..Len(ids) :
                  \E g \in hits :
                    /\ ids[i] = NatToStr(GENRE_INFO[g].id)
                    /\ Cardinality({h \in hits : h < g}) = i - 1
    /\ searchQuery \in {"war", "warm"} =>
         out.parsedQuery.genres = Some(<<"36", "10752">>)
    /\ searchQuery = "suspense" => out.parsedQuery.genres = Some(<<"9648", "53">>)
    /\ searchQuery \in {"funny war", "war funny"} =>
         out.parsedQuery.genres = Some(<<"35", "36", "10752">>)
    /\ searchQuery = "historical era" => out.parsedQuery.genres = Some(<<"36">>)
    /\ searchQuery = "husband" => out.parsedQuery.genres = Some(<<"10402">>)
    /\ searchQuery = "up" => out.parsedQuery.genres = None

\* C25 witness: a text with a keyword of Horror and, in capitals, the
\* keyword History and War share has been parsed
C25_ZombieWar ==
  /\ phase = "parsed"
  /\ searchQuery = "Zombie WAR"
  /\ out.parsedQuery.genres = Some(<<"36", "27", "10752">>)

\* what is left of each text of GenreTexts when the whole-word occurrences
\* of the primary genre names are taken out and white space is collapsed
TextLeft(q) ==
  CASE q = "horror zombie"         -> Some("zombie")
    [] q = "Action hero"           -> Some("hero")
    [] q = "funny comedy"          -> Some("funny")
    [] q = "funny war"             -> Some("funny")
    [] q = "war funny"             -> Some("funny")
    [] q = "Zombie WAR"            -> Some("Zombie")
    [] q = "sci-fi classics"       -> Some("classics")
    [] q = "cowboy  western town"  -> Some("cowboy town")
    [] q = "family-friendly drama" -> Some("-friendly")
    [] q = "the crime of war"      -> Some("the of")
    [] q = "science fiction war"   -> None
    [] q = "Science Fiction"       -> None
    [] OTHER                       -> Some(q)

\* C26: the genre step takes out of the text only the whole-word
\* occurrences of the primary genre names: a keyword that is no primary
\* genre name ("zombie", "funny", "cowboy"), and a genre name inside a
\* longer word ("actions", "warm"), set genres and useDiscover and stay in
\* the text query; a text without a genre keeps all its words.
C26_OnlyPrimaryNamesStripped ==
  phase = "parsed" =>
    /\ searchQuery \in GenreTexts =>
         /\ out.parsedQuery.genres # None
         /\ out.parsedQuery.useDiscover
         /\ out.parsedQuery.textQuery = TextLeft(searchQuery)
    /\ searchQuery \in {"up", "it", "the matrix", "7", "x_y", "rating", "min 90"} =>
         /\ out.parsedQuery.genres = None
         /\ out.parsedQuery.textQuery = Some(searchQuery)

\* C26 witness: a primary genre name and a keyword of the same genre have
\* been parsed; the keyword is the text query
C26_ZombieStays ==
  /\ phase = "parsed"
  /\ searchQuery = "horror zombie"
  /\ out.parsedQuery.genres = Some(<<"27">>)
  /\ out.parsedQuery.useDiscover
  /\ out.parsedQuery.textQuery = Some("zombie")

\* each text of WordQueries without a filter, trimmed and with its runs of
\* white space collapsed to one space
Collapsed(q) ==
  CASE q = " up "        -> "up"
    [] q = "the  matrix" -> "the matrix"
    [] q = "\tup  it\n"  -> "up it"
    [] q = "\fup"     -> "up"

\* C27: in search mode the debounced query is not blank and nothing was
\* extracted from it, and the query the search request carries is the text
\* query of the parsed query: not empty, the debounced query trimmed with
\* its runs of white space collapsed to one space; every search request
\* issued carries such a term.
C27_SearchTermCollapsed ==
  /\ out.mounted /\ out.apiMode = "search" =>
       /\ ~IsBlank(out.debouncedQuery)
       /\ ~HasFilter(out.parsedQuery)
       /\ out.parsedQuery.textQuery = Some(Collapsed(out.debouncedQuery))
       /\ Len(Collapsed(out.debouncedQuery)) > 0
       /\ Collapsed(out.debouncedQuery) = trim(CollapseSpaces(out.debouncedQuery, 1))
       /\ out.args["search"] = "searchMovies(query:" \o Collapsed(out.debouncedQuery)
                               \o ",page:" \o NatToStr(out.currentPage) \o ")"
  /\ \A k \in DOMAIN cache :
       KeyEndpoint(k) = "search" =>
         \E q \in {" up ", "the  matrix", "\tup  it\n", "\fup"} : \E p \in 1..(MaxPages + 1) :
           k = "searchMovies(query:" \o Collapsed(q) \o ",page:" \o NatToStr(p) \o ")"

\* C27 witness: the search request of a text with tabs, a line end and two
\* spaces is in flight
C27_TabsCollapsed ==
  /\ out.mounted
  /\ out.apiMode = "search"
  /\ out.debouncedQuery = "\tup  it\n"
  /\ "searchMovies(query:up it,page:1)" \in DOMAIN cache
  /\ Entry(cache, "searchMovies(query:up it,page:1)").status = "pending"

\* the session is at rest: no render and no timeout is pending and the
\* request of the current mode, query and page has been answered with a
\* page that is not empty
AtRest ==
  /\ phase = "idle"
  /\ out.mounted
  /\ timer = None
  /\ Entry(cache, out.args[out.apiMode]).status = "fulfilled"
  /\ Len(Entry(cache, out.args[out.apiMode]).data[1].results) > 0

\* C28: whenever the session is at rest the exposed list is not empty and
\* holds the items of the page the current request has fetched.
C28_RepopulatedAtRest ==
  AtRest =>
    /\ Len(out.movies) > 0
    /\ \A i \in 1..Len(Entry(cache, out.args[out.apiMode]).data[1].results) :
         \E j \in 1..Len(out.movies) :
           out.movies[j] = Entry(cache, out.args[out.apiMode]).data[1].results[i]

\* the discover request of page p for a minimum rating of 7 and nothing else
RatingSevenRequest(p) ==
  "discoverMovies(sort_by:popularity.desc,vote_average.gte:7,vote_count.gte:100,page:"
  \o NatToStr(p) \o ")"

\* C29: the discover parameters do not depend on the text query: the
\* mapping of the parsed query of a render is the same with any other text
\* query in its place, and in discover mode the texts "7+", "up 7+" and
\* "it  7+ ", which differ in their remaining words only, have the same
\* request; no other discover request is ever issued for them.
C29_DiscoverIgnoresText ==
  /\ out.mounted =>
       \A w \in {None, Some("up"), Some("zombie")} :
         toDiscoverParams([out.parsedQuery EXCEPT !.textQuery = w])
           = toDiscoverParams(out.parsedQuery)
  /\ out.mounted /\ out.apiMode = "discover" =>
       out.args["discover"] = RatingSevenRequest(out.currentPage)
  /\ \A k \in DOMAIN cache :
       KeyEndpoint(k) = "discover" => \E p \in 1..(MaxPages + 1) : k = RatingSevenRequest(p)

\* C29 witness: the second text typed is a rating filter with a word left
\* over; the one discover request there is has been answered
C29_WordsLeftOver ==
  /\ out.mounted
  /\ events = 2
  /\ out.apiMode = "discover"
  /\ out.debouncedQuery = "it  7+ "
  /\ out.parsedQuery.textQuery = Some("it")
  /\ {k \in DOMAIN cache : KeyEndpoint(k) # "popular"} = {RatingSevenRequest(1)}
  /\ Entry(cache, RatingSevenRequest(1)).status = "fulfilled"

\* the ids of a list of movies
IdsOf(s) == {s[i] : i \in 1..Len(s)}

\* the effects of a render on a later page whose accumulate effect runs on
\* data all of whose items are in the accumulated list already
ReappliesMerged ==
  /\ EffectsRun
  /\ flushed.mounted
  /\ out'.currentPage > 1
  /\ ~resetRuns(flushed, out')
  /\ accumulateRuns(flushed, out')
  /\ out'.data # None
  /\ IdsOf(out'.data[1].content.results) \subseteq IdsOf(accumulatedMovies)

\* C30: when the accumulate effect runs again on a later page with data
\* that has been merged already, the accumulated list stays as it is,
\* content and order; applying a page of a later page number a second time
\* changes nothing, whatever the list and the page.
C30_ReapplyIsIdempotent ==
  /\ [][ReappliesMerged => accumulatedMovies' = accumulatedMovies]_vars
  /\ [](\A r \in UpstreamResponses : \A p \in 2..MaxPages :
          accumulate(accumulate(accumulatedMovies, r.results, p), r.results, p)
            = accumulate(accumulatedMovies, r.results, p))

\* C30 witness: loadMore has moved to page 2, whose response has not
\* arrived: the effect has run on the data of page 1 again and the list is
\* that of page 1
C30_FirstPageReapplied ==
  /\ phase = "idle"
  /\ out.currentPage = 2
  /\ out.data # None
  /\ out.data[1].key = "getPopularMovies(1)"
  /\ out.data[1].content.results = <<1, 2>>
  /\ Entry(cache, "getPopularMovies(2)").status = "pending"
  /\ accumulatedMovies = <<1, 2>>
====
